---- MODULE Spec2Model ----
(***************************************************************************)
(* Model of the ZWO ASI camera driver (cameraunit_asi/src/asicamera_2.rs)  *)
(* behind the CameraInfo / CameraUnit contract (cameraunit/src/lib.rs).    *)
(*                                                                         *)
(* The driver object is shared by reference between caller threads for    *)
(* the &self operations (capture_image, cancel_capture, is_capturing);    *)
(* the &mut self operations (the setters) need exclusive access and are   *)
(* therefore only taken while no &self call is in flight.  The vendor SDK *)
(* is the environment: every SDK call returns one of its documented       *)
(* result codes, chosen nondeterministically, and the exposure status     *)
(* moves on its own from Working to a final status.                       *)
(***************************************************************************)
EXTENDS Integers, Sequences, FiniteSets, TLC

(***************************************************************************)
(* Bounds                                                                  *)
(***************************************************************************)
NumThreads == 2
GainHalf == 3    \* the normalized gain 0.5 is GainHalf / GainDen
TempDen == 2     \* temperatures are multiples of 1 / TempDen degrees

Threads == 1..NumThreads

\* normalized gains are multiples of 1 / GainDen
GainDen == 2 * GainHalf

(***************************************************************************)
(* Program constants                                                       *)
(***************************************************************************)
exp_min == 1000              \* microseconds
exp_max == 200000000         \* microseconds
InitialExposure == 100000    \* microseconds
gain_min == 0
gain_max == 100
TempMin == -80
TempMax == 20

(***************************************************************************)
(* Devices: the properties open_camera copies from ASI_CAMERA_INFO.        *)
(***************************************************************************)
DeviceProfiles ==
    { [name |-> "ASI294MC", is_color_cam |-> TRUE,
       supported_formats |-> {"RAW8", "RGB24", "RAW16"},
       supported_bins |-> {1, 2, 4}, mechanical_shutter |-> FALSE,
       is_cooler_cam |-> TRUE, is_usb3_camera |-> TRUE,
       max_width |-> 3008, max_height |-> 2200],
      [name |-> "ASI1600MM", is_color_cam |-> FALSE,
       supported_formats |-> {"RAW8", "RAW16"},
       supported_bins |-> {1, 2, 4}, mechanical_shutter |-> TRUE,
       is_cooler_cam |-> TRUE, is_usb3_camera |-> TRUE,
       max_width |-> 3008, max_height |-> 2200],
      [name |-> "ASI120MM", is_color_cam |-> FALSE,
       supported_formats |-> {"RAW8"},
       supported_bins |-> {1, 2}, mechanical_shutter |-> FALSE,
       is_cooler_cam |-> FALSE, is_usb3_camera |-> FALSE,
       max_width |-> 1280, max_height |-> 960] }

VARIABLES
    props,          \* CameraUnit_ASI.props
    capturing,      \* the bool inside Arc<Mutex<bool>>
    lock,           \* holder of that mutex: 0 when free, else a thread
    exposure,       \* CameraUnit_ASI.exposure (microseconds)
    is_dark_frame,  \* CameraUnit_ASI.is_dark_frame
    image_fmt,      \* CameraUnit_ASI.image_fmt
    roi,            \* CameraUnit_ASI.roi
    hw_status,      \* SDK: exposure status of the camera
    hw_roi,         \* SDK: ROI format (width, height, bin, fmt)
    hw_start,       \* SDK: start position
    hw_ctl,         \* SDK: control values
    pc,             \* per thread: position inside its current call
    stat,           \* per thread: local `stat` of capture_image
    roi_md,         \* per thread: local `roi` of capture_image
    call,           \* per thread: observation of the call in flight
    handles,        \* the live handles: the owners of the Arc<ASICamId>
    teardown,       \* SDK: the calls issued by the drop of the ASICamId
    last            \* observation of the call that returned in the step
                    \* just taken, if one did

vars == <<props, capturing, lock, exposure, is_dark_frame, image_fmt, roi,
          hw_status, hw_roi, hw_start, hw_ctl, pc, stat, roi_md, call,
          handles, teardown, last>>

driver == <<exposure, is_dark_frame, image_fmt, roi>>
hw_geom == <<hw_roi, hw_start>>
refs == <<handles, teardown>>

(***************************************************************************)
(* SDK result codes the driver distinguishes, per call.                    *)
(***************************************************************************)
IdCodes == {"SUCCESS", "INVALID_ID", "CAMERA_CLOSED"}
StartCodes == IdCodes \cup {"VIDEO_MODE_ACTIVE"}
DataCodes == IdCodes \cup {"TIMEOUT"}

ExposureStatuses == {"Idle", "Working", "Success", "Failed"}

Errors == {"InvalidId", "CameraClosed", "TimedOut", "ExposureInProgress",
           "GeneralError(Video mode active)", "ExposureFailed(Unknown)",
           "ExposureFailed(No data)", "ExposureFailed(Timed out)",
           "InvalidValue", "InvalidControlType", "OutOfBounds",
           "InvalidMode", "Message", "Message(Not implemented)"}

IsErr(r) == r \in Errors

\* the common mapping of a result code to Err(InvalidId) / Err(CameraClosed)
IdError(res) ==
    IF res = "INVALID_ID" THEN "InvalidId"
    ELSE IF res = "CAMERA_CLOSED" THEN "CameraClosed"
    ELSE "Ok"

\* get_exposure_status: the status on success, else the error
get_exposure_status(res, st) ==
    IF IdError(res) # "Ok" THEN IdError(res) ELSE st

\* sys_cancel_capture: ASIStopExposure and its error mapping
sys_cancel_capture(res) == IdError(res)

(***************************************************************************)
(* Behaviour of the camera behind the SDK calls.                           *)
(***************************************************************************)
\* ASIStartExposure: a successful start puts the camera in Working
HwAfterStart(res, st) == IF res = "SUCCESS" THEN "Working" ELSE st

\* ASIStopExposure: a successful stop ends a running exposure; a finished
\* one may or may not be discarded
HwAfterStop(res, st) ==
    IF res # "SUCCESS" THEN {st}
    ELSE IF st = "Working" THEN {"Idle"}
    ELSE {st, "Idle"}

\* ASIGetDataAfterExp: a successful download may return the camera to Idle
HwAfterData(res, st) ==
    IF res = "SUCCESS" /\ st = "Success" THEN {st, "Idle"} ELSE {st}

\* what is recorded of a call in flight: the operation, the flag and the
\* status found at entry, the situation the operation is judged by, the SDK
\* commands issued so far; for capture_image also its locals: the commands
\* that had been issued when start_time was read, the dark-frame argument
\* given to the start command, the sleep of the poll loop chosen and the
\* sleeps taken
NoCall == [op |-> "none", flag0 |-> FALSE, stat0 |-> "none", ctx |-> FALSE,
           cmds |-> {}, stamp |-> {}, dark |-> "none", tick |-> 0,
           sleeps |-> {}]

\* the metadata of no image
NoMeta == [timestamp |-> {}, dark_frame |-> "none"]

\* what is recorded of a call in the step it returns: the above (flag0 is
\* the flag the call found), its argument, the result and value returned,
\* the status the poll loop ended with, the bytes asked of the download and
\* whether the driver's stored state was changed; the flag it leaves is the value of capturing in that state
\* for capture_image also the dark-frame argument given to the start
\* command, the sleeps taken and the metadata of the image
NoLast == [op |-> "none", arg |-> 0, result |-> "none", val |-> 0,
           flag0 |-> FALSE, stat0 |-> "none", ctx |-> FALSE, cmds |-> {},
           stat |-> "none", bytes |-> 0, changed |-> FALSE,
           dark |-> "none", tick |-> 0, sleeps |-> {}, meta |-> NoMeta]

\* the record of a &self call c returning r after its poll loop ended with s
Returned(c, r, s) ==
    [NoLast EXCEPT !.op = c.op, !.result = r, !.flag0 = c.flag0,
                   !.stat0 = c.stat0, !.ctx = c.ctx, !.cmds = c.cmds,
                   !.stat = s, !.dark = c.dark, !.tick = c.tick,
                   !.sleeps = c.sleeps]

NoRoiMd == [width |-> 0, height |-> 0, bin |-> 0, fmt |-> "RAW8"]

(***************************************************************************)
(* open_camera                                                             *)
(***************************************************************************)
InitialFormat(p) ==
    IF p.is_color_cam THEN "RGB24"
    ELSE IF "RAW16" \in p.supported_formats THEN "RAW16"
    ELSE "RAW8"

InitialRoi(p) ==
    [x_min |-> 0, x_max |-> p.max_width, y_min |-> 0, y_max |-> p.max_height,
     bin_x |-> 1, bin_y |-> 1]

\* the driver and the camera as open_camera leaves them, the camera being
\* one of P
OpenedAs(P) ==
    /\ props \in P
    /\ capturing = FALSE
    /\ lock = 0
    /\ exposure = InitialExposure
    /\ is_dark_frame = FALSE
    /\ image_fmt = InitialFormat(props)
    /\ roi = InitialRoi(props)
    /\ hw_status = "Idle"
    /\ hw_roi = [width |-> props.max_width, height |-> props.max_height,
                 bin |-> 1, fmt |-> InitialFormat(props)]
    /\ hw_start = <<0, 0>>
    /\ hw_ctl = [Gain |-> gain_min, Exposure |-> InitialExposure,
                 Offset |-> 0]
    /\ pc = [t \in Threads |-> "idle"]
    /\ stat = [t \in Threads |-> "Idle"]
    /\ roi_md = [t \in Threads |-> NoRoiMd]
    /\ call = [t \in Threads |-> NoCall]
    /\ handles = [driver |-> TRUE, info |-> 1]
    /\ teardown = [stop |-> 0, close |-> 0]

Opened == OpenedAs(DeviceProfiles)

Init ==
    /\ Opened
    /\ last = NoLast

(***************************************************************************)
(* capture_image                                                           *)
(***************************************************************************)
ExposureFailedErrors ==
    {"ExposureFailed(Unknown)", "ExposureFailed(No data)",
     "ExposureFailed(Timed out)"}

\* the caller enters capture_image and waits for the mutex (line 537); it is
\* noted whether it directly follows the return of a capture that reported a
\* failed exposure
capture_image_call(t) ==
    /\ pc[t] = "idle"
    /\ pc' = [pc EXCEPT ![t] = "ci_lock"]
    /\ call' = [call EXCEPT ![t] =
                  [NoCall EXCEPT !.op = "capture_image",
                                 !.ctx = /\ last.op = "capture_image"
                                         /\ last.result \in ExposureFailedErrors]]
    /\ last' = NoLast
    /\ UNCHANGED <<props, refs, capturing, lock, driver, hw_status, hw_geom, hw_ctl,
                   stat, roi_md>>

\* self.capturing.lock() at line 537
capture_image_lock(t) ==
    /\ pc[t] = "ci_lock"
    /\ lock = 0
    /\ lock' = t
    /\ pc' = [pc EXCEPT ![t] = "ci_trigger"]
    /\ call' = call
    /\ last' = NoLast
    /\ UNCHANGED <<props, refs, capturing, driver, hw_status, hw_geom, hw_ctl,
                   stat, roi_md>>

\* capture_trigger, were a Working status at entry not adopted: the flag is
\* left as found
capture_trigger_no_adopt(flag, st, sres, rres, xres) ==
    LET s == get_exposure_status(sres, st) IN
    IF IsErr(s) THEN
        [capturing |-> flag, result |-> s, cmds |-> {"GetExpStatus"},
         hw_status |-> st, stat0 |-> s]
    ELSE IF s = "Working" THEN
        [capturing |-> flag, result |-> "ExposureInProgress",
         cmds |-> {"GetExpStatus"}, hw_status |-> st, stat0 |-> s]
    ELSE IF s = "Failed" THEN
        [capturing |-> flag, result |-> "ExposureFailed(Unknown)",
         cmds |-> {"GetExpStatus"}, hw_status |-> st, stat0 |-> s]
    ELSE IF IdError(rres) # "Ok" THEN
        [capturing |-> FALSE, result |-> IdError(rres),
         cmds |-> {"GetExpStatus", "GetROIFormat"}, hw_status |-> st,
         stat0 |-> s]
    ELSE
        LET c == {"GetExpStatus", "GetROIFormat", "StartExposure"}
            h == HwAfterStart(xres, st)
        IN  IF xres = "INVALID_ID" THEN
                [capturing |-> FALSE, result |-> "InvalidId", cmds |-> c,
                 hw_status |-> h, stat0 |-> s]
            ELSE IF xres = "CAMERA_CLOSED" THEN
                [capturing |-> FALSE, result |-> "CameraClosed", cmds |-> c,
                 hw_status |-> h, stat0 |-> s]
            ELSE IF xres = "VIDEO_MODE_ACTIVE" THEN
                [capturing |-> TRUE,
                 result |-> "GeneralError(Video mode active)", cmds |-> c,
                 hw_status |-> h, stat0 |-> s]
            ELSE
                [capturing |-> TRUE, result |-> "continue", cmds |-> c,
                 hw_status |-> h, stat0 |-> s]

\* Lines 538-569 for the result codes of the three SDK calls: the flag left
\* behind, the value returned ("continue" when the call goes on to poll), the
\* SDK commands issued and the camera's status afterwards.
capture_trigger(flag, st, sres, rres, xres) ==
    LET s == get_exposure_status(sres, st) IN
    IF IsErr(s) THEN
        [capturing |-> flag, result |-> s, cmds |-> {"GetExpStatus"},
         hw_status |-> st, stat0 |-> s]
    ELSE IF s = "Working" THEN
        [capturing |-> TRUE, result |-> "ExposureInProgress",
         cmds |-> {"GetExpStatus"}, hw_status |-> st, stat0 |-> s]
    ELSE IF s = "Failed" THEN
        [capturing |-> flag, result |-> "ExposureFailed(Unknown)",
         cmds |-> {"GetExpStatus"}, hw_status |-> st, stat0 |-> s]
    ELSE IF IdError(rres) # "Ok" THEN
        [capturing |-> FALSE, result |-> IdError(rres),
         cmds |-> {"GetExpStatus", "GetROIFormat"}, hw_status |-> st,
         stat0 |-> s]
    ELSE
        LET c == {"GetExpStatus", "GetROIFormat", "StartExposure"}
            h == HwAfterStart(xres, st)
        IN  IF xres = "INVALID_ID" THEN
                [capturing |-> FALSE, result |-> "InvalidId", cmds |-> c,
                 hw_status |-> h, stat0 |-> s]
            ELSE IF xres = "CAMERA_CLOSED" THEN
                [capturing |-> FALSE, result |-> "CameraClosed", cmds |-> c,
                 hw_status |-> h, stat0 |-> s]
            ELSE IF xres = "VIDEO_MODE_ACTIVE" THEN
                [capturing |-> TRUE,
                 result |-> "GeneralError(Video mode active)", cmds |-> c,
                 hw_status |-> h, stat0 |-> s]
            ELSE
                [capturing |-> TRUE, result |-> "continue", cmds |-> c,
                 hw_status |-> h, stat0 |-> s]

\* the read of the clock, were it made once the exposure is started
start_time_read_late(cmds) == cmds

\* line 548: start_time = SystemTime::now() is read after get_roi_format
\* and before ASIStartExposure; cmds are the commands of the block when it
\* reaches the start command, the answer those issued before the read
start_time_read(cmds) == cmds \ {"StartExposure"}

\* lines 549-558: the second argument of ASIStartExposure; both arms of the
\* if on is_dark_frame are ASI_BOOL_ASI_TRUE
start_exposure_dark(dark) == IF dark THEN "True" ELSE "True"

\* the sleep of the poll loop, were 16 ms still polled every 1 ms
poll_interval_inclusive(e) ==
    IF e <= 16000 THEN 1000
    ELSE IF e < 1000000 THEN 100000
    ELSE 1000000

\* lines 571, 579 and 587: the loop entered for the configured exposure,
\* named by its sleep (all in microseconds)
poll_interval(e) ==
    IF e < 16000 THEN 1000
    ELSE IF e < 1000000 THEN 100000
    ELSE 1000000

\* lines 693-703: DARK_FRAME is "True" unless get_shutter_open answers
\* Ok(true); a camera without a mechanical shutter answers Err
dark_frame_attrib(p, dark) ==
    LET open == IF ~p.mechanical_shutter THEN FALSE ELSE ~dark
    IN  IF ~open THEN "True" ELSE "False"

\* the holder of the mutex past the trigger block, were the guard of line
\* 537 declared outside the block and so alive while the caller polls
lock_kept_while_polling(t, going_on) == IF going_on THEN t ELSE 0

\* lines 536 and 569: the guard of line 537 is local to the block, and is
\* dropped where the block ends or returns, whether capture_image goes on
\* to poll or not
lock_after_trigger(t, going_on) == IF going_on THEN 0 ELSE 0

\* the block of lines 536-569, run while holding the mutex
capture_image_trigger(t) ==
    /\ pc[t] = "ci_trigger"
    /\ lock = t
    /\ \E sres \in IdCodes, rres \in IdCodes, xres \in StartCodes :
         LET o == capture_trigger(capturing, hw_status, sres, rres, xres)
             started == "StartExposure" \in o.cmds
             c == [call[t] EXCEPT
                     !.stat0 = o.stat0, !.cmds = o.cmds, !.flag0 = capturing,
                     !.stamp = IF started THEN start_time_read(o.cmds)
                               ELSE {},
                     !.dark = IF started
                              THEN start_exposure_dark(is_dark_frame)
                              ELSE "none"]
         IN
         /\ capturing' = o.capturing
         /\ hw_status' = o.hw_status
         /\ IF o.result = "continue"
            THEN /\ pc' = [pc EXCEPT ![t] = "poll"]
                 /\ roi_md' = [roi_md EXCEPT ![t] = hw_roi]
                 /\ call' = [call EXCEPT ![t] =
                               [NoCall EXCEPT
                                  !.op = c.op, !.cmds = c.cmds,
                                  !.stamp = c.stamp, !.dark = c.dark,
                                  !.tick = poll_interval(exposure)]]
                 /\ last' = NoLast
            ELSE /\ pc' = [pc EXCEPT ![t] = "idle"]
                 /\ roi_md' = roi_md
                 /\ call' = [call EXCEPT ![t] = NoCall]
                 /\ last' = Returned(c, o.result, "none")
         /\ lock' = lock_after_trigger(t, o.result = "continue")
    /\ UNCHANGED <<props, refs, driver, hw_geom, hw_ctl, stat>>

\* one iteration of the poll loop of lines 570-595 (the three loops differ in
\* their sleep only): query the status, leave the loop unless it is Working,
\* else sleep; an error of the query returns from capture_image
capture_image_poll(t) ==
    /\ pc[t] = "poll"
    /\ \E sres \in IdCodes :
         LET s == get_exposure_status(sres, hw_status)
             c == [call[t] EXCEPT
                     !.cmds = @ \cup {"GetExpStatus"},
                     !.sleeps = IF s = "Working" THEN @ \cup {call[t].tick}
                                ELSE @]
         IN
         IF IsErr(s)
         THEN /\ pc' = [pc EXCEPT ![t] = "idle"]
              /\ call' = [call EXCEPT ![t] = NoCall]
              /\ roi_md' = [roi_md EXCEPT ![t] = NoRoiMd]
              /\ last' = Returned(c, s, "none")
              /\ stat' = stat
         ELSE /\ pc' = [pc EXCEPT ![t] =
                          IF s # "Working" THEN "ci_relock" ELSE "poll"]
              /\ call' = [call EXCEPT ![t] = c]
              /\ stat' = [stat EXCEPT ![t] = s]
              /\ roi_md' = roi_md
              /\ last' = NoLast
    /\ UNCHANGED <<props, refs, capturing, lock, driver, hw_status, hw_geom, hw_ctl>>

\* self.capturing.lock() at line 596
capture_image_relock(t) ==
    /\ pc[t] = "ci_relock"
    /\ lock = 0
    /\ lock' = t
    /\ pc' = [pc EXCEPT ![t] = "ci_finish"]
    /\ last' = NoLast
    /\ UNCHANGED <<props, refs, capturing, driver, hw_status, hw_geom, hw_ctl,
                   stat, roi_md, call>>

\* the download, were a RAW16 frame asked for with one byte per pixel
readout_raw16_short(flag, md, dres) ==
    LET e == IF dres = "INVALID_ID" THEN "InvalidId"
             ELSE IF dres = "CAMERA_CLOSED" THEN "CameraClosed"
             ELSE IF dres = "TIMEOUT" THEN "TimedOut"
             ELSE "Ok"
        n == md.width * md.height
    IN  IF md.fmt = "RAW8" THEN
            [capturing |-> IF e # "Ok" THEN flag ELSE FALSE, result |-> e,
             bytes |-> n,
             img |-> [width |-> md.width, height |-> md.height,
                      pixel |-> "Luma8"]]
        ELSE IF md.fmt = "RAW16" THEN
            [capturing |-> IF e # "Ok" THEN flag ELSE FALSE, result |-> e,
             bytes |-> n,
             img |-> [width |-> md.width, height |-> md.height,
                      pixel |-> "Luma16"]]
        ELSE
            [capturing |-> IF e # "Ok" THEN flag ELSE FALSE, result |-> e,
             bytes |-> n * 3,
             img |-> [width |-> md.width, height |-> md.height,
                      pixel |-> "Rgb8"]]

\* Lines 610-678: the download for the format read at the trigger, one arm
\* per format: the bytes asked of ASIGetDataAfterExp, the flag and the image
\* built (nothing is built when the download fails).
readout(flag, md, dres) ==
    LET e == IF dres = "INVALID_ID" THEN "InvalidId"
             ELSE IF dres = "CAMERA_CLOSED" THEN "CameraClosed"
             ELSE IF dres = "TIMEOUT" THEN "TimedOut"
             ELSE "Ok"
        n == md.width * md.height
    IN  IF md.fmt = "RAW8" THEN
            [capturing |-> IF e # "Ok" THEN flag ELSE FALSE, result |-> e,
             bytes |-> n,
             img |-> [width |-> md.width, height |-> md.height,
                      pixel |-> "Luma8"]]
        ELSE IF md.fmt = "RAW16" THEN
            [capturing |-> IF e # "Ok" THEN flag ELSE FALSE, result |-> e,
             bytes |-> n * 2,
             img |-> [width |-> md.width, height |-> md.height,
                      pixel |-> "Luma16"]]
        ELSE
            [capturing |-> IF e # "Ok" THEN flag ELSE FALSE, result |-> e,
             bytes |-> n * 3,
             img |-> [width |-> md.width, height |-> md.height,
                      pixel |-> "Rgb8"]]

NoImage == [width |-> 0, height |-> 0, pixel |-> "none"]

\* capture_finish, were a final status of Idle not told apart from Success:
\* the download is attempted
capture_finish_idle_reads(flag, s, md, cres, dres) ==
    IF s = "Failed" THEN
        [capturing |-> FALSE, result |-> "ExposureFailed(Unknown)",
         cmds |-> {}, bytes |-> 0, img |-> NoImage]
    ELSE IF s = "Working" THEN
        IF sys_cancel_capture(cres) # "Ok" THEN
            [capturing |-> flag, result |-> sys_cancel_capture(cres),
             cmds |-> {"StopExposure"}, bytes |-> 0, img |-> NoImage]
        ELSE
            [capturing |-> FALSE, result |-> "ExposureFailed(Timed out)",
             cmds |-> {"StopExposure"}, bytes |-> 0, img |-> NoImage]
    ELSE
        LET r == readout(flag, md, dres) IN
        [capturing |-> r.capturing, result |-> r.result,
         cmds |-> {"GetDataAfterExp"}, bytes |-> r.bytes,
         img |-> IF r.result = "Ok" THEN r.img ELSE NoImage]

\* Lines 597-706 for the status the poll loop ended with, the format read at
\* the trigger, the result code of the stop command (timed-out branch) and
\* of the download.
capture_finish(flag, s, md, cres, dres) ==
    IF s = "Failed" THEN
        [capturing |-> FALSE, result |-> "ExposureFailed(Unknown)",
         cmds |-> {}, bytes |-> 0, img |-> NoImage]
    ELSE IF s = "Idle" THEN
        [capturing |-> FALSE, result |-> "ExposureFailed(No data)",
         cmds |-> {}, bytes |-> 0, img |-> NoImage]
    ELSE IF s = "Working" THEN
        IF sys_cancel_capture(cres) # "Ok" THEN
            [capturing |-> flag, result |-> sys_cancel_capture(cres),
             cmds |-> {"StopExposure"}, bytes |-> 0, img |-> NoImage]
        ELSE
            [capturing |-> FALSE, result |-> "ExposureFailed(Timed out)",
             cmds |-> {"StopExposure"}, bytes |-> 0, img |-> NoImage]
    ELSE
        LET r == readout(flag, md, dres) IN
        [capturing |-> r.capturing, result |-> r.result,
         cmds |-> {"GetDataAfterExp"}, bytes |-> r.bytes,
         img |-> IF r.result = "Ok" THEN r.img ELSE NoImage]

\* lines 597-706, run while holding the mutex taken at line 596
capture_image_finish(t) ==
    /\ pc[t] = "ci_finish"
    /\ lock = t
    /\ \E cres \in IdCodes, dres \in DataCodes :
         LET o == capture_finish(capturing, stat[t], roi_md[t], cres, dres)
             c == [call[t] EXCEPT !.cmds = @ \cup o.cmds]
         IN
         /\ capturing' = o.capturing
         /\ hw_status' \in
              IF "StopExposure" \in o.cmds THEN HwAfterStop(cres, hw_status)
              ELSE IF "GetDataAfterExp" \in o.cmds
                   THEN HwAfterData(dres, hw_status)
              ELSE {hw_status}
         /\ last' = [Returned(c, o.result, stat[t]) EXCEPT
                        !.arg = roi_md[t], !.bytes = o.bytes, !.val = o.img,
                        !.meta = IF o.result = "Ok"
                                 THEN [timestamp |-> call[t].stamp,
                                       dark_frame |->
                                         dark_frame_attrib(props,
                                                           is_dark_frame)]
                                 ELSE NoMeta]
    /\ lock' = 0
    /\ pc' = [pc EXCEPT ![t] = "idle"]
    /\ call' = [call EXCEPT ![t] = NoCall]
    /\ stat' = [stat EXCEPT ![t] = "Idle"]
    /\ roi_md' = [roi_md EXCEPT ![t] = NoRoiMd]
    /\ UNCHANGED <<props, refs, driver, hw_geom, hw_ctl>>

(***************************************************************************)
(* cancel_capture                                                          *)
(***************************************************************************)
\* the caller enters cancel_capture and waits for the mutex (line 508)
cancel_capture_call(t) ==
    /\ pc[t] = "idle"
    /\ pc' = [pc EXCEPT ![t] = "cc_lock"]
    /\ call' = [call EXCEPT ![t] = [NoCall EXCEPT !.op = "cancel_capture"]]
    /\ last' = NoLast
    /\ UNCHANGED <<props, refs, capturing, lock, driver, hw_status, hw_geom, hw_ctl,
                   stat, roi_md>>

\* self.capturing.lock() at line 508
cancel_capture_lock(t) ==
    /\ pc[t] = "cc_lock"
    /\ lock = 0
    /\ lock' = t
    /\ pc' = [pc EXCEPT ![t] = "cc_body"]
    /\ call' = call
    /\ last' = NoLast
    /\ UNCHANGED <<props, refs, capturing, driver, hw_status, hw_geom, hw_ctl,
                   stat, roi_md>>

\* Lines 509-514 for the flag found and the result code of the stop command.
cancel_body(flag, cres) ==
    IF flag THEN
        [capturing |-> flag, result |-> "Ok", cmds |-> {}]
    ELSE IF sys_cancel_capture(cres) # "Ok" THEN
        [capturing |-> flag, result |-> sys_cancel_capture(cres),
         cmds |-> {"StopExposure"}]
    ELSE
        [capturing |-> FALSE, result |-> "Ok", cmds |-> {"StopExposure"}]

\* lines 509-514, run while holding the mutex; it is noted what flag the
\* call found and whether another thread was in the poll loop of a running
\* exposure
cancel_capture_body(t) ==
    /\ pc[t] = "cc_body"
    /\ lock = t
    /\ \E cres \in IdCodes :
         LET o == cancel_body(capturing, cres)
             c == [call[t] EXCEPT
                     !.cmds = o.cmds,
                     !.flag0 = capturing,
                     !.ctx = /\ hw_status = "Working"
                             /\ \E u \in Threads \ {t} : pc[u] = "poll"]
         IN
         /\ capturing' = o.capturing
         /\ hw_status' \in
              IF "StopExposure" \in o.cmds THEN HwAfterStop(cres, hw_status)
              ELSE {hw_status}
         /\ last' = Returned(c, o.result, "none")
    /\ lock' = 0
    /\ pc' = [pc EXCEPT ![t] = "idle"]
    /\ call' = [call EXCEPT ![t] = NoCall]
    /\ UNCHANGED <<props, refs, driver, hw_geom, hw_ctl, stat, roi_md>>

(***************************************************************************)
(* The setters.  They take &mut self, so a setter runs only while no &self *)
(* call on the driver is in flight, and it finds the mutex free.           *)
(***************************************************************************)
Exclusive == \A t \in Threads : pc[t] = "idle"

\* division and remainder of i32 / i64 / float-to-int casts: toward zero
TruncDiv(a, b) == IF a >= 0 THEN a \div b ELSE -((-a) \div b)
TruncRem(a, b) == a - b * TruncDiv(a, b)

\* error mapping of set_control_value (lines 1276-1288)
SetControlError(res) ==
    IF res = "INVALID_ID" THEN "InvalidId"
    ELSE IF res = "INVALID_CONTROL_TYPE" THEN "InvalidControlType"
    ELSE IF res = "CAMERA_CLOSED" THEN "CameraClosed"
    ELSE IF res = "GENERAL_ERROR" THEN "Message"
    ELSE "Ok"

\* error mapping of get_control_value (lines 1253-1260)
GetControlError(res) ==
    IF res = "INVALID_ID" THEN "InvalidId"
    ELSE IF res = "INVALID_CONTROL_TYPE" THEN "InvalidControlType"
    ELSE IF res = "CAMERA_CLOSED" THEN "CameraClosed"
    ELSE "Ok"

SetControlCodes == IdCodes \cup {"INVALID_CONTROL_TYPE", "GENERAL_ERROR"}
GetControlCodes == IdCodes \cup {"INVALID_CONTROL_TYPE"}

\* the result codes of a write followed by a read-back; a call that is not
\* reached has no result, which is written as SUCCESS
WriteReadCodes ==
    { c \in SetControlCodes \X GetControlCodes :
        c[1] # "SUCCESS" => c[2] = "SUCCESS" }

\* the result codes to consider for a call that issues the SDK commands cmds
\* when every SDK call succeeds: none but success when it issues none
CodesFor(cmds, codes, success) == IF cmds = {} THEN {success} ELSE codes

\* ASISetControlValue: a successful write stores the value
HwAfterSetControl(res, cur, v) == IF res = "SUCCESS" THEN v ELSE cur

\* the record of an exclusive call
Exclusively(op, arg, o, flag, chg) ==
    [NoLast EXCEPT !.op = op, !.arg = arg, !.result = o.result,
                   !.val = o.val, !.cmds = o.cmds, !.flag0 = flag,
                   !.changed = chg]

\* ---- set_exposure (lines 759-786) ----
\* the range check of set_exposure, were the upper limit not checked
check_exposure_no_max(e) ==
    IF e < exp_min THEN "InvalidValue" ELSE "Ok"

check_exposure(e) ==
    IF e < exp_min THEN "InvalidValue"
    ELSE IF e > exp_max THEN "InvalidValue"
    ELSE "Ok"

\* set_exposure, were the capture check missing
set_exposure_unguarded(flag, cur, hwcur, e, wres, rres) ==
    IF check_exposure(e) # "Ok" THEN
        [result |-> "InvalidValue", val |-> 0, exposure |-> cur,
         hw |-> hwcur, cmds |-> {}]
    ELSE IF SetControlError(wres) # "Ok" THEN
        [result |-> SetControlError(wres), val |-> 0, exposure |-> cur,
         hw |-> hwcur, cmds |-> {"SetControlValue"}]
    ELSE IF GetControlError(rres) # "Ok" THEN
        [result |-> GetControlError(rres), val |-> 0, exposure |-> cur,
         hw |-> HwAfterSetControl(wres, hwcur, e),
         cmds |-> {"SetControlValue", "GetControlValue"}]
    ELSE
        [result |-> "Ok", val |-> HwAfterSetControl(wres, hwcur, e),
         exposure |-> HwAfterSetControl(wres, hwcur, e),
         hw |-> HwAfterSetControl(wres, hwcur, e),
         cmds |-> {"SetControlValue", "GetControlValue"}]

\* the result, the stored exposure, the camera's exposure and the SDK
\* commands issued, for the flag found and the result codes of the write
\* and of the read-back
set_exposure_body(flag, cur, hwcur, e, wres, rres) ==
    IF check_exposure(e) # "Ok" THEN
        [result |-> "InvalidValue", val |-> 0, exposure |-> cur,
         hw |-> hwcur, cmds |-> {}]
    ELSE IF flag THEN
        [result |-> "ExposureInProgress", val |-> 0, exposure |-> cur,
         hw |-> hwcur, cmds |-> {}]
    ELSE IF SetControlError(wres) # "Ok" THEN
        [result |-> SetControlError(wres), val |-> 0, exposure |-> cur,
         hw |-> hwcur, cmds |-> {"SetControlValue"}]
    ELSE IF GetControlError(rres) # "Ok" THEN
        [result |-> GetControlError(rres), val |-> 0, exposure |-> cur,
         hw |-> HwAfterSetControl(wres, hwcur, e),
         cmds |-> {"SetControlValue", "GetControlValue"}]
    ELSE
        [result |-> "Ok", val |-> HwAfterSetControl(wres, hwcur, e),
         exposure |-> HwAfterSetControl(wres, hwcur, e),
         hw |-> HwAfterSetControl(wres, hwcur, e),
         cmds |-> {"SetControlValue", "GetControlValue"}]

set_exposure(e) ==
    /\ Exclusive
    /\ \E c \in CodesFor(set_exposure_body(capturing, exposure,
                          hw_ctl.Exposure, e, "SUCCESS", "SUCCESS").cmds,
                        WriteReadCodes, <<"SUCCESS", "SUCCESS">>) :
         LET o == set_exposure_body(capturing, exposure, hw_ctl.Exposure,
                                    e, c[1], c[2])
         IN
         /\ exposure' = o.exposure
         /\ hw_ctl' = [hw_ctl EXCEPT !.Exposure = o.hw]
         /\ last' = Exclusively("set_exposure", e, o, capturing,
                                o.exposure # exposure)
    /\ UNCHANGED <<props, refs, capturing, lock, is_dark_frame, image_fmt, roi,
                   hw_status, hw_geom, pc, stat, roi_md, call>>

\* ---- set_gain_raw (lines 801-819) and get_gain_raw (lines 734-740) ----
check_gain_raw(g) ==
    IF g < gain_min THEN "InvalidValue"
    ELSE IF g > gain_max THEN "InvalidValue"
    ELSE "Ok"

\* get_gain_raw: the camera's gain, or 0 when it cannot be read
get_gain_raw(rres, hwgain) ==
    IF GetControlError(rres) = "Ok" THEN hwgain ELSE 0

set_gain_raw_body(flag, hwcur, g, wres, rres) ==
    IF check_gain_raw(g) # "Ok" THEN
        [result |-> "InvalidValue", val |-> 0, hw |-> hwcur, cmds |-> {}]
    ELSE IF flag THEN
        [result |-> "ExposureInProgress", val |-> 0, hw |-> hwcur,
         cmds |-> {}]
    ELSE IF SetControlError(wres) # "Ok" THEN
        [result |-> SetControlError(wres), val |-> 0, hw |-> hwcur,
         cmds |-> {"SetControlValue"}]
    ELSE
        [result |-> "Ok",
         val |-> get_gain_raw(rres, HwAfterSetControl(wres, hwcur, g)),
         hw |-> HwAfterSetControl(wres, hwcur, g),
         cmds |-> {"SetControlValue", "GetControlValue"}]

set_gain_raw(g) ==
    /\ Exclusive
    /\ \E c \in CodesFor(set_gain_raw_body(capturing, hw_ctl.Gain, g,
                                          "SUCCESS", "SUCCESS").cmds,
                        WriteReadCodes, <<"SUCCESS", "SUCCESS">>) :
         LET o == set_gain_raw_body(capturing, hw_ctl.Gain, g, c[1], c[2])
         IN
         /\ hw_ctl' = [hw_ctl EXCEPT !.Gain = o.hw]
         /\ last' = Exclusively("set_gain_raw", g, o, capturing, FALSE)
    /\ UNCHANGED <<props, refs, capturing, lock, driver, hw_status, hw_geom, pc,
                   stat, roi_md, call>>

\* ---- set_gain (lines 788-799) ----
\* A normalized gain (f32) is the rational n / GainDen.
check_gain(n) ==
    IF n < 0 \/ n > 100 * GainDen THEN "InvalidValue" ELSE "Ok"

\* (gain * (gain_max - gain_min) + gain_min) as c_long
gain_to_raw(n) ==
    TruncDiv(n * (gain_max - gain_min) + gain_min * GainDen, GainDen)

\* the value returned is (raw - gain_min) / (gain_max - gain_min), recorded
\* as its numerator
set_gain_body(flag, hwcur, n, wres, rres) ==
    IF check_gain(n) # "Ok" THEN
        [result |-> "InvalidValue", val |-> 0, hw |-> hwcur, cmds |-> {}]
    ELSE
        LET o == set_gain_raw_body(flag, hwcur, gain_to_raw(n), wres, rres)
        IN  IF o.result # "Ok" THEN o
            ELSE [o EXCEPT !.val = o.val - gain_min]

set_gain(n) ==
    /\ Exclusive
    /\ \E c \in CodesFor(set_gain_body(capturing, hw_ctl.Gain, n,
                                      "SUCCESS", "SUCCESS").cmds,
                        WriteReadCodes, <<"SUCCESS", "SUCCESS">>) :
         LET o == set_gain_body(capturing, hw_ctl.Gain, n, c[1], c[2])
         IN
         /\ hw_ctl' = [hw_ctl EXCEPT !.Gain = o.hw]
         /\ last' = Exclusively("set_gain", n, o, capturing, FALSE)
    /\ UNCHANGED <<props, refs, capturing, lock, driver, hw_status, hw_geom, pc,
                   stat, roi_md, call>>

\* ---- set_shutter_open (lines 919-931) ----
set_shutter_open_body(flag, p, dark, open) ==
    IF flag THEN
        [result |-> "ExposureInProgress", val |-> FALSE,
         is_dark_frame |-> dark, cmds |-> {}]
    ELSE IF ~p.mechanical_shutter THEN
        [result |-> "InvalidControlType", val |-> FALSE,
         is_dark_frame |-> dark, cmds |-> {}]
    ELSE
        [result |-> "Ok", val |-> open, is_dark_frame |-> ~open,
         cmds |-> {}]

set_shutter_open(open) ==
    /\ Exclusive
    /\ LET o == set_shutter_open_body(capturing, props, is_dark_frame, open)
       IN
       /\ is_dark_frame' = o.is_dark_frame
       /\ last' = Exclusively("set_shutter_open", open, o, capturing,
                              o.is_dark_frame # is_dark_frame)
    /\ UNCHANGED <<props, refs, capturing, lock, exposure, image_fmt, roi,
                   hw_status, hw_geom, hw_ctl, pc, stat, roi_md, call>>

\* ---- set_roi (lines 821-917) ----
\* self.camera_name().contains("ASI120")
ASI120Names == {"ASI120MM"}

\* the check of lines 883-889, were it left out
asi120_area_unchecked(p, width, height) == FALSE

\* lines 883-889: a camera that is not on USB3 and whose name contains
\* "ASI120" takes only areas that are multiples of 1024
asi120_area_refused(p, width, height) ==
    /\ ~p.is_usb3_camera
    /\ p.name \in ASI120Names
    /\ TruncRem(width * height, 1024) # 0

\* the checks of set_roi, were width and height not cut to the alignment
normalize_roi_uncut(p, req) ==
    IF req.bin_x # req.bin_y THEN
        [result |-> "InvalidValue", roi |-> req, width |-> 0, height |-> 0]
    ELSE IF req.bin_x < 1 THEN
        [result |-> "InvalidValue", roi |-> req, width |-> 0, height |-> 0]
    ELSE IF req.bin_x \notin p.supported_bins THEN
        [result |-> "InvalidValue", roi |-> req, width |-> 0, height |-> 0]
    ELSE
        LET x_max0 == IF req.x_max <= 0 THEN p.max_width ELSE req.x_max
            y_max0 == IF req.y_max <= 0 THEN p.max_height ELSE req.y_max
            x_min == TruncDiv(req.x_min, req.bin_x)
            x_max1 == TruncDiv(x_max0, req.bin_x)
            y_min == TruncDiv(req.y_min, req.bin_x)
            y_max1 == TruncDiv(y_max0, req.bin_x)
            width == x_max1 - x_min
            height == y_max1 - y_min
            r == [x_min |-> x_min, x_max |-> x_min + width,
                  y_min |-> y_min, y_max |-> y_min + height,
                  bin_x |-> req.bin_x, bin_y |-> req.bin_x]
        IN  IF width < 0 \/ height < 0 THEN
                [result |-> "InvalidValue", roi |-> r, width |-> width,
                 height |-> height]
            ELSE IF r.x_max > TruncDiv(p.max_width, r.bin_x) THEN
                [result |-> "OutOfBounds", roi |-> r, width |-> width,
                 height |-> height]
            ELSE IF r.y_max > TruncDiv(p.max_height, r.bin_y) THEN
                [result |-> "OutOfBounds", roi |-> r, width |-> width,
                 height |-> height]
            ELSE IF asi120_area_refused(p, width, height) THEN
                [result |-> "InvalidValue", roi |-> r, width |-> width,
                 height |-> height]
            ELSE
                [result |-> "Ok", roi |-> r, width |-> width,
                 height |-> height]

\* Lines 822-889: the checks on the request and its normalization to binned
\* coordinates, width cut to a multiple of 8 and height to a multiple of 2.
normalize_roi(p, req) ==
    IF req.bin_x # req.bin_y THEN
        [result |-> "InvalidValue", roi |-> req, width |-> 0, height |-> 0]
    ELSE IF req.bin_x < 1 THEN
        [result |-> "InvalidValue", roi |-> req, width |-> 0, height |-> 0]
    ELSE IF req.bin_x \notin p.supported_bins THEN
        [result |-> "InvalidValue", roi |-> req, width |-> 0, height |-> 0]
    ELSE
        LET x_max0 == IF req.x_max <= 0 THEN p.max_width ELSE req.x_max
            y_max0 == IF req.y_max <= 0 THEN p.max_height ELSE req.y_max
            x_min == TruncDiv(req.x_min, req.bin_x)
            x_max1 == TruncDiv(x_max0, req.bin_x)
            y_min == TruncDiv(req.y_min, req.bin_x)
            y_max1 == TruncDiv(y_max0, req.bin_x)
            width == (x_max1 - x_min) - TruncRem(x_max1 - x_min, 8)
            height == (y_max1 - y_min) - TruncRem(y_max1 - y_min, 2)
            r == [x_min |-> x_min, x_max |-> x_min + width,
                  y_min |-> y_min, y_max |-> y_min + height,
                  bin_x |-> req.bin_x, bin_y |-> req.bin_x]
        IN  IF width < 0 \/ height < 0 THEN
                [result |-> "InvalidValue", roi |-> r, width |-> width,
                 height |-> height]
            ELSE IF r.x_max > TruncDiv(p.max_width, r.bin_x) THEN
                [result |-> "OutOfBounds", roi |-> r, width |-> width,
                 height |-> height]
            ELSE IF r.y_max > TruncDiv(p.max_height, r.bin_y) THEN
                [result |-> "OutOfBounds", roi |-> r, width |-> width,
                 height |-> height]
            ELSE IF asi120_area_refused(p, width, height) THEN
                [result |-> "InvalidValue", roi |-> r, width |-> width,
                 height |-> height]
            ELSE
                [result |-> "Ok", roi |-> r, width |-> width,
                 height |-> height]

StartPosCodes == IdCodes \cup {"OUTOF_BOUNDARY"}

\* set_start_pos (lines 360-379): negative coordinates are refused without
\* an SDK call
set_start_pos(x, y, res) ==
    IF x < 0 \/ y < 0 THEN "InvalidValue"
    ELSE IF IdError(res) # "Ok" THEN IdError(res)
    ELSE IF res = "OUTOF_BOUNDARY" THEN "OutOfBounds"
    ELSE "Ok"

\* ASISetROIFormat / ASISetStartPos: a successful write stores the value
HwAfterSetRoiFormat(res, cur, md) == IF res = "SUCCESS" THEN md ELSE cur
HwAfterSetStartPos(res, cur, x, y) ==
    IF x >= 0 /\ y >= 0 /\ res = "SUCCESS" THEN <<x, y>> ELSE cur

\* the hardware update of set_roi, were the new ROI stored before the
\* geometry write is known to have succeeded
apply_roi_stores_early(flag, cur, hwroi, hwstart, n, g1, g2, s1, s2, s3) ==
    IF flag THEN
        [result |-> "ExposureInProgress", roi |-> cur, hw_roi |-> hwroi,
         hw_start |-> hwstart, cmds |-> {}]
    ELSE IF IdError(g1) # "Ok" THEN
        [result |-> IdError(g1), roi |-> cur, hw_roi |-> hwroi,
         hw_start |-> hwstart, cmds |-> {"GetROIFormat"}]
    ELSE IF IdError(g2) # "Ok" THEN
        [result |-> IdError(g2), roi |-> cur, hw_roi |-> hwroi,
         hw_start |-> hwstart, cmds |-> {"GetROIFormat", "GetStartPos"}]
    ELSE
        LET md == [hwroi EXCEPT !.width = n.width, !.height = n.height,
                                !.bin = n.roi.bin_x]
            c1 == {"GetROIFormat", "GetStartPos", "SetROIFormat"}
            h1 == HwAfterSetRoiFormat(s1, hwroi, md)
        IN  IF IdError(s1) # "Ok" THEN
                [result |-> IdError(s1), roi |-> n.roi, hw_roi |-> h1,
                 hw_start |-> hwstart, cmds |-> c1]
            ELSE
                LET c2 == IF n.roi.x_min < 0 \/ n.roi.y_min < 0 THEN c1
                          ELSE c1 \cup {"SetStartPos"}
                    p2 == HwAfterSetStartPos(s2, hwstart, n.roi.x_min,
                                             n.roi.y_min)
                IN  IF set_start_pos(n.roi.x_min, n.roi.y_min, s2) # "Ok"
                    THEN
                        IF IdError(s3) # "Ok" THEN
                            [result |-> IdError(s3), roi |-> cur,
                             hw_roi |-> HwAfterSetRoiFormat(s3, h1, hwroi),
                             hw_start |-> p2, cmds |-> c2]
                        ELSE
                            [result |-> "Ok", roi |-> n.roi,
                             hw_roi |-> HwAfterSetRoiFormat(s3, h1, hwroi),
                             hw_start |-> p2, cmds |-> c2]
                    ELSE
                        [result |-> "Ok", roi |-> n.roi, hw_roi |-> h1,
                         hw_start |-> p2, cmds |-> c2]

\* Lines 891-917 for a request that passed the checks (n is its
\* normalization), the flag found and the result codes of the SDK calls:
\* read the format (g1) and the start position (g2), write the geometry
\* (s1), write the start position (s2) and, if that failed, write the old
\* format back (s3).
apply_roi(flag, cur, hwroi, hwstart, n, g1, g2, s1, s2, s3) ==
    IF flag THEN
        [result |-> "ExposureInProgress", roi |-> cur, hw_roi |-> hwroi,
         hw_start |-> hwstart, cmds |-> {}]
    ELSE IF IdError(g1) # "Ok" THEN
        [result |-> IdError(g1), roi |-> cur, hw_roi |-> hwroi,
         hw_start |-> hwstart, cmds |-> {"GetROIFormat"}]
    ELSE IF IdError(g2) # "Ok" THEN
        [result |-> IdError(g2), roi |-> cur, hw_roi |-> hwroi,
         hw_start |-> hwstart, cmds |-> {"GetROIFormat", "GetStartPos"}]
    ELSE
        LET md == [hwroi EXCEPT !.width = n.width, !.height = n.height,
                                !.bin = n.roi.bin_x]
            c1 == {"GetROIFormat", "GetStartPos", "SetROIFormat"}
            h1 == HwAfterSetRoiFormat(s1, hwroi, md)
        IN  IF IdError(s1) # "Ok" THEN
                [result |-> IdError(s1), roi |-> cur, hw_roi |-> h1,
                 hw_start |-> hwstart, cmds |-> c1]
            ELSE
                LET c2 == IF n.roi.x_min < 0 \/ n.roi.y_min < 0 THEN c1
                          ELSE c1 \cup {"SetStartPos"}
                    p2 == HwAfterSetStartPos(s2, hwstart, n.roi.x_min,
                                             n.roi.y_min)
                IN  IF set_start_pos(n.roi.x_min, n.roi.y_min, s2) # "Ok"
                    THEN
                        IF IdError(s3) # "Ok" THEN
                            [result |-> IdError(s3), roi |-> cur,
                             hw_roi |-> HwAfterSetRoiFormat(s3, h1, hwroi),
                             hw_start |-> p2, cmds |-> c2]
                        ELSE
                            [result |-> "Ok", roi |-> n.roi,
                             hw_roi |-> HwAfterSetRoiFormat(s3, h1, hwroi),
                             hw_start |-> p2, cmds |-> c2]
                    ELSE
                        [result |-> "Ok", roi |-> n.roi, hw_roi |-> h1,
                         hw_start |-> p2, cmds |-> c2]

\* the result codes of the five SDK calls of set_roi; a call that is not
\* reached has no result, which is written as SUCCESS
RoiCallCodes ==
    { c \in IdCodes \X IdCodes \X IdCodes \X StartPosCodes \X IdCodes :
        /\ c[1] # "SUCCESS" => c[2] = "SUCCESS"
        /\ (c[1] # "SUCCESS" \/ c[2] # "SUCCESS") => c[3] = "SUCCESS"
        /\ (c[1] # "SUCCESS" \/ c[2] # "SUCCESS" \/ c[3] # "SUCCESS")
             => c[4] = "SUCCESS"
        /\ c[4] = "SUCCESS" => c[5] = "SUCCESS" }

\* set_roi, were a request beyond the sensor passed on to the camera
set_roi_body_unbounded(flag, p, cur, hwroi, hwstart, req, g1, g2, s1, s2, s3) ==
    LET n == normalize_roi(p, req) IN
    IF n.result \notin {"Ok", "OutOfBounds"} THEN
        [result |-> n.result, roi |-> cur, hw_roi |-> hwroi,
         hw_start |-> hwstart, cmds |-> {}]
    ELSE apply_roi(flag, cur, hwroi, hwstart, n, g1, g2, s1, s2, s3)

set_roi_body(flag, p, cur, hwroi, hwstart, req, g1, g2, s1, s2, s3) ==
    LET n == normalize_roi(p, req) IN
    IF n.result # "Ok" THEN
        [result |-> n.result, roi |-> cur, hw_roi |-> hwroi,
         hw_start |-> hwstart, cmds |-> {}]
    ELSE apply_roi(flag, cur, hwroi, hwstart, n, g1, g2, s1, s2, s3)

set_roi(req) ==
    /\ Exclusive
    /\ \E c \in CodesFor(set_roi_body(capturing, props, roi, hw_roi,
                          hw_start, req, "SUCCESS", "SUCCESS", "SUCCESS",
                          "SUCCESS", "SUCCESS").cmds,
                        RoiCallCodes,
                        <<"SUCCESS", "SUCCESS", "SUCCESS", "SUCCESS",
                          "SUCCESS">>) :
         LET o == set_roi_body(capturing, props, roi, hw_roi, hw_start, req,
                               c[1], c[2], c[3], c[4], c[5])
         IN
         /\ roi' = o.roi
         /\ hw_roi' = o.hw_roi
         /\ hw_start' = o.hw_start
         /\ last' = Exclusively("set_roi", req, [o EXCEPT !.result = o.result]
                                                  @@ [val |-> o.roi],
                                capturing, o.roi # roi)
    /\ UNCHANGED <<props, refs, capturing, lock, exposure, is_dark_frame, image_fmt,
                   hw_status, hw_ctl, pc, stat, roi_md, call>>

\* ---- set_image_fmt (lines 295-313) ----
\* is_capturing, were it to read the flag past a held mutex
is_capturing_stale(holder, flag) == flag

\* is_capturing (lines 477-483): try_lock; true when the mutex is held
is_capturing(holder, flag) == IF holder = 0 THEN flag ELSE TRUE

\* the result codes of the read and the write of the ROI format
ReadWriteCodes ==
    { c \in IdCodes \X IdCodes : c[1] # "SUCCESS" => c[2] = "SUCCESS" }

set_image_fmt_body(holder, flag, p, cur, hwroi, fmt, g1, s1) ==
    IF cur = fmt THEN
        [result |-> "Ok", val |-> 0, image_fmt |-> cur, hw_roi |-> hwroi,
         cmds |-> {}]
    ELSE IF fmt \notin p.supported_formats THEN
        [result |-> "InvalidMode", val |-> 0, image_fmt |-> cur,
         hw_roi |-> hwroi, cmds |-> {}]
    ELSE IF is_capturing(holder, flag) THEN
        [result |-> "ExposureInProgress", val |-> 0, image_fmt |-> cur,
         hw_roi |-> hwroi, cmds |-> {}]
    ELSE IF IdError(g1) # "Ok" THEN
        [result |-> IdError(g1), val |-> 0, image_fmt |-> cur,
         hw_roi |-> hwroi, cmds |-> {"GetROIFormat"}]
    ELSE IF IdError(s1) # "Ok" THEN
        [result |-> IdError(s1), val |-> 0, image_fmt |-> cur,
         hw_roi |-> hwroi, cmds |-> {"GetROIFormat", "SetROIFormat"}]
    ELSE
        [result |-> "Ok", val |-> 0, image_fmt |-> fmt,
         hw_roi |-> HwAfterSetRoiFormat(s1, hwroi, [hwroi EXCEPT !.fmt = fmt]),
         cmds |-> {"GetROIFormat", "SetROIFormat"}]

set_image_fmt(fmt) ==
    /\ Exclusive
    /\ \E c \in CodesFor(set_image_fmt_body(lock, capturing, props,
                          image_fmt, hw_roi, fmt, "SUCCESS", "SUCCESS").cmds,
                        ReadWriteCodes, <<"SUCCESS", "SUCCESS">>) :
         LET o == set_image_fmt_body(lock, capturing, props, image_fmt,
                                     hw_roi, fmt, c[1], c[2])
         IN
         /\ image_fmt' = o.image_fmt
         /\ hw_roi' = o.hw_roi
         /\ last' = Exclusively("set_image_fmt", fmt, o, capturing,
                                o.image_fmt # image_fmt)
    /\ UNCHANGED <<props, refs, capturing, lock, exposure, is_dark_frame, roi,
                   hw_status, hw_start, hw_ctl, pc, stat, roi_md, call>>

\* ---- set_temperature (lines 1291-1311), through either handle ----
\* A temperature (f32) is the rational h / TempDen.
\* The value written and returned is the temperature cut to an integer.
set_temperature_body(p, h, wres) ==
    IF ~p.is_cooler_cam THEN
        [result |-> "InvalidControlType", val |-> 0, cmds |-> {}]
    ELSE IF h < TempMin * TempDen THEN
        [result |-> "InvalidValue", val |-> 0, cmds |-> {}]
    ELSE IF h > TempMax * TempDen THEN
        [result |-> "InvalidValue", val |-> 0, cmds |-> {}]
    ELSE IF SetControlError(wres) # "Ok" THEN
        [result |-> SetControlError(wres), val |-> 0,
         cmds |-> {"SetControlValue"}]
    ELSE
        [result |-> "Ok", val |-> TruncDiv(h, TempDen),
         cmds |-> {"SetControlValue"}]

\* it takes &self and no lock, so it may be called at any time; the target
\* temperature it writes is read by no operation of the driver
set_temperature(h) ==
    /\ \E wres \in CodesFor(set_temperature_body(props, h, "SUCCESS").cmds,
                           SetControlCodes, "SUCCESS") :
         LET o == set_temperature_body(props, h, wres)
         IN  last' = Exclusively("set_temperature", h, o, capturing, FALSE)
    /\ UNCHANGED <<props, refs, capturing, lock, driver, hw_status, hw_geom, hw_ctl,
                   pc, stat, roi_md, call>>

(***************************************************************************)
(* The camera: a running exposure ends on its own.                         *)
(***************************************************************************)
HwExposureEnds ==
    /\ hw_status = "Working"
    /\ hw_status' \in {"Success", "Failed", "Idle"}
    /\ last' = NoLast
    /\ UNCHANGED <<props, refs, capturing, lock, driver, hw_geom, hw_ctl, pc, stat,
                   roi_md, call>>

(***************************************************************************)
(* Specification of the capture state machine: the threads call            *)
(* capture_image and cancel_capture on the shared driver.                  *)
(***************************************************************************)
ThreadStep(t) ==
    \/ capture_image_call(t)
    \/ capture_image_lock(t)
    \/ capture_image_trigger(t)
    \/ capture_image_poll(t)
    \/ capture_image_relock(t)
    \/ capture_image_finish(t)
    \/ cancel_capture_call(t)
    \/ cancel_capture_lock(t)
    \/ cancel_capture_body(t)

\* ---- is_capturing (lines 431-437 and 477-483) ----
\* the info handle and the driver handle hold clones of the same Arc
Handles == {"driver", "info"}

\* A thread that is not inside another call asks handle h.  try_lock never
\* waits; ctx records whether the mutex was held.
is_capturing_call(t, h) ==
    /\ pc[t] = "idle"
    /\ last' = [NoLast EXCEPT !.op = "is_capturing", !.arg = h,
                              !.result = "Ok",
                              !.val = is_capturing(lock, capturing),
                              !.flag0 = capturing, !.ctx = (lock # 0)]
    /\ UNCHANGED <<props, refs, capturing, lock, driver, hw_status, hw_geom, hw_ctl,
                   pc, stat, roi_md, call>>

Next ==
    \/ \E t \in Threads : ThreadStep(t)
    \/ \E t \in Threads, h \in Handles : is_capturing_call(t, h)
    \/ HwExposureEnds

Spec == Init /\ [][Next]_vars

(***************************************************************************)
(* Specification of the control surface: one caller makes the &self calls  *)
(* and, between them, the setters.                                         *)
(***************************************************************************)
Caller == CHOOSE t \in Threads : TRUE

ExposureInputs == {exp_min - 1, exp_min, exp_max + 1}
GainRawInputs == {gain_min - 1, gain_max, gain_max + 1}
GainInputs == {-1, GainDen, GainDen + 1, 100 * GainDen + 1}
TempInputs == {TempMin * TempDen - 1, -21, TempMax * TempDen + 1}
RoiInputs ==
    { [x_min |-> 300, x_max |-> 2700, y_min |-> 800, y_max |-> 2100,
       bin_x |-> 1, bin_y |-> 1],
      [x_min |-> 0, x_max |-> 0, y_min |-> 0, y_max |-> 0,
       bin_x |-> 3, bin_y |-> 1] }
FormatInputs == {"RAW8", "RGB24"}

NextCtl ==
    \/ ThreadStep(Caller)
    \/ HwExposureEnds
    \/ \E e \in ExposureInputs : set_exposure(e)
    \/ \E g \in GainRawInputs : set_gain_raw(g)
    \/ \E n \in GainInputs : set_gain(n)
    \/ \E req \in RoiInputs : set_roi(req)
    \/ \E open \in BOOLEAN : set_shutter_open(open)
    \/ \E fmt \in FormatInputs : set_image_fmt(fmt)
    \/ \E h \in TempInputs : set_temperature(h)

SpecCtl == Init /\ [][NextCtl]_vars

(***************************************************************************)
(* Specification of the gain mapping: set_gain, set_gain_raw and get_gain  *)
(* on an idle camera.                                                      *)
(***************************************************************************)
\* get_gain (lines 721-728): (raw - gain_min) / (gain_max - gain_min),
\* given as its numerator, or 0.0 when the gain cannot be read
get_gain_body(rres, hwgain) ==
    IF GetControlError(rres) = "Ok" THEN hwgain - gain_min ELSE 0

\* ctx records whether the read succeeded
get_gain ==
    /\ \E rres \in GetControlCodes :
         last' = [NoLast EXCEPT !.op = "get_gain", !.result = "Ok",
                                !.val = get_gain_body(rres, hw_ctl.Gain),
                                !.cmds = {"GetControlValue"},
                                !.flag0 = capturing,
                                !.ctx = (GetControlError(rres) = "Ok")]
    /\ UNCHANGED <<props, refs, capturing, lock, driver, hw_status, hw_geom, hw_ctl,
                   pc, stat, roi_md, call>>

GainMapInputs ==
    GainInputs \cup {0, 1, GainHalf, GainDen - 1, 2 * GainDen, 100 * GainDen}

NextGain ==
    \/ \E n \in GainMapInputs : set_gain(n)
    \/ \E g \in GainRawInputs : set_gain_raw(g)
    \/ get_gain

SpecGain == Init /\ [][NextGain]_vars

(***************************************************************************)
(* Specification of the geometry: one caller makes the &self calls and,    *)
(* between them, set_roi and set_image_fmt.                                *)
(***************************************************************************)
RoiRequests ==
    RoiInputs \cup
    { [x_min |-> 8, x_max |-> 1010, y_min |-> 4, y_max |-> 905,
       bin_x |-> 2, bin_y |-> 2],
      [x_min |-> -8, x_max |-> 792, y_min |-> 0, y_max |-> 600,
       bin_x |-> 1, bin_y |-> 1],
      [x_min |-> 0, x_max |-> 4000, y_min |-> 0, y_max |-> 100,
       bin_x |-> 1, bin_y |-> 1],
      [x_min |-> 0, x_max |-> 0, y_min |-> 0, y_max |-> 0,
       bin_x |-> 0, bin_y |-> 0],
      [x_min |-> 0, x_max |-> 0, y_min |-> 0, y_max |-> 0,
       bin_x |-> 3, bin_y |-> 3] }

NextRoi ==
    \/ ThreadStep(Caller)
    \/ HwExposureEnds
    \/ \E req \in RoiRequests : set_roi(req)
    \/ \E fmt \in FormatInputs : set_image_fmt(fmt)

SpecRoi == Init /\ [][NextRoi]_vars

(***************************************************************************)
(* set_roi on requests at the edge of its checks, the cameras including    *)
(* one that is not on USB3 and is not an ASI120.                           *)
(***************************************************************************)
\* IsUSB3Host is false for a camera plugged into a USB2 port
Usb2Profiles ==
    { [name |-> "ASI178MC", is_color_cam |-> TRUE,
       supported_formats |-> {"RAW8", "RGB24", "RAW16"},
       supported_bins |-> {1, 2, 4}, mechanical_shutter |-> FALSE,
       is_cooler_cam |-> FALSE, is_usb3_camera |-> FALSE,
       max_width |-> 3096, max_height |-> 2080] }

\* extents of -5, -20 and -1 binned pixels; an area of 496 x 450, which is
\* not a multiple of 1024, and one of 512 x 600, which is
EdgeRequests ==
    { [x_min |-> 100, x_max |-> 95, y_min |-> 0, y_max |-> 600,
       bin_x |-> 1, bin_y |-> 1],
      [x_min |-> 100, x_max |-> 80, y_min |-> 0, y_max |-> 600,
       bin_x |-> 1, bin_y |-> 1],
      [x_min |-> 0, x_max |-> 800, y_min |-> 101, y_max |-> 100,
       bin_x |-> 1, bin_y |-> 1],
      [x_min |-> 8, x_max |-> 1010, y_min |-> 4, y_max |-> 905,
       bin_x |-> 2, bin_y |-> 2],
      [x_min |-> 0, x_max |-> 512, y_min |-> 0, y_max |-> 600,
       bin_x |-> 1, bin_y |-> 1] }

InitRoiEdge ==
    /\ OpenedAs(DeviceProfiles \cup Usb2Profiles)
    /\ last = NoLast

NextRoiEdge == \E req \in EdgeRequests : set_roi(req)

SpecRoiEdge == InitRoiEdge /\ [][NextRoiEdge]_vars
(***************************************************************************)
(* Capabilities: the operations the ASI driver leaves to the traits'       *)
(* default bodies, and those that depend on what the camera has.           *)
(***************************************************************************)
\* ---- CameraUnit::set_offset (lib.rs lines 116-122), not overridden ----
set_offset_body(o) ==
    [result |-> "Message(Not implemented)", val |-> 0, cmds |-> {}]

set_offset(o) ==
    /\ Exclusive
    /\ last' = Exclusively("set_offset", o, set_offset_body(o), capturing,
                           FALSE)
    /\ UNCHANGED <<props, refs, capturing, lock, driver, hw_status, hw_geom, hw_ctl,
                   pc, stat, roi_md, call>>

\* ---- get_offset (lines 742-748) ----
get_offset_body(rres, hwoffset) ==
    IF GetControlError(rres) = "Ok" THEN hwoffset ELSE 0

\* ctx records whether the read succeeded
get_offset ==
    /\ \E rres \in GetControlCodes :
         last' = [NoLast EXCEPT !.op = "get_offset", !.result = "Ok",
                                !.val = get_offset_body(rres, hw_ctl.Offset),
                                !.cmds = {"GetControlValue"},
                                !.flag0 = capturing,
                                !.ctx = (GetControlError(rres) = "Ok")]
    /\ UNCHANGED <<props, refs, capturing, lock, driver, hw_status, hw_geom, hw_ctl,
                   pc, stat, roi_md, call>>

\* ---- get_shutter_open (lines 750-757) ----
get_shutter_open_body(p, dark) ==
    IF ~p.mechanical_shutter THEN
        [result |-> "InvalidControlType", val |-> FALSE, cmds |-> {}]
    ELSE
        [result |-> "Ok", val |-> ~dark, cmds |-> {}]

get_shutter_open ==
    /\ last' = Exclusively("get_shutter_open", 0,
                           get_shutter_open_body(props, is_dark_frame),
                           capturing, FALSE)
    /\ UNCHANGED <<props, refs, capturing, lock, driver, hw_status, hw_geom, hw_ctl,
                   pc, stat, roi_md, call>>

\* ---- CameraInfo::set_cooler_power (lib.rs lines 52-56), not overridden ----
CoolerPowerInputs == {0, 50}

set_cooler_power_body(power) ==
    [result |-> "Message(Not implemented)", val |-> 0, cmds |-> {}]

set_cooler_power(power) ==
    /\ last' = Exclusively("set_cooler_power", power,
                           set_cooler_power_body(power), capturing, FALSE)
    /\ UNCHANGED <<props, refs, capturing, lock, driver, hw_status, hw_geom, hw_ctl,
                   pc, stat, roi_md, call>>

\* ---- CameraUnit::get_last_image (lib.rs lines 86-90), not overridden ----
get_last_image_body == [result |-> "None", val |-> 0, cmds |-> {}]

get_last_image ==
    /\ last' = Exclusively("get_last_image", 0, get_last_image_body,
                           capturing, FALSE)
    /\ UNCHANGED <<props, refs, capturing, lock, driver, hw_status, hw_geom, hw_ctl,
                   pc, stat, roi_md, call>>

\* ---- CameraUnit::get_status (lib.rs lines 169-173), not overridden ----
get_status_body == [result |-> "Not implemented", val |-> 0, cmds |-> {}]

get_status ==
    /\ last' = Exclusively("get_status", 0, get_status_body, capturing, FALSE)
    /\ UNCHANGED <<props, refs, capturing, lock, driver, hw_status, hw_geom, hw_ctl,
                   pc, stat, roi_md, call>>

OffsetInputs == {0, 10}

\* one caller captures and cancels; between its calls the offset, the
\* shutter, the cooler and the defaulted operations are used
NextCap ==
    \/ ThreadStep(Caller)
    \/ HwExposureEnds
    \/ \E o \in OffsetInputs : set_offset(o)
    \/ get_offset
    \/ \E open \in BOOLEAN : set_shutter_open(open)
    \/ get_shutter_open
    \/ \E h \in TempInputs : set_temperature(h)
    \/ \E power \in CoolerPowerInputs : set_cooler_power(power)
    \/ get_last_image
    \/ get_status

SpecCap == Init /\ [][NextCap]_vars
(***************************************************************************)
(* ImageData::find_optimum_exposure (imagedata.rs lines 113-218)           *)
(*                                                                         *)
(* Durations are whole microseconds.  The code computes in f32 and f64;    *)
(* here the same expressions are evaluated exactly and truncated where the *)
(* code casts to u64.  percentile_pix is counted in tenths of a percent.   *)
(***************************************************************************)
PercentDen == 10            \* percentile_pix = pct / PercentDen
MicrosPerSec == 1000000     \* the factors 1e6 and 1e-6
EpsilonInv == 100000        \* 1 / 1e-5, the floor of the sampled value
EpsilonMicros == 10         \* 1e-5 s, the least exposure returned

\* img.to_luma16() sorted ascending
sorted_pixels(img) == SortSeq(img, LAMBDA a, b : a < b)

\* the index sampled in a sorted frame of n pixels (lines 134-142)
sample_coord(n, pct, pixel_exclusion) ==
    LET coord == IF pct > 100 * PercentDen - 1 THEN n - 1
                 ELSE (pct * (n - 1)) \div (100 * PercentDen)
    IN  IF coord < pixel_exclusion THEN n - 1 - pixel_exclusion ELSE coord

\* the convergence test of line 156, were the tolerance halved
within_uncertainty_halved(pixel_tgt, val, pixel_uncertainty) ==
    LET d == IF pixel_tgt >= val THEN pixel_tgt - val ELSE val - pixel_tgt
    IN  2 * d < pixel_uncertainty

\* (pixel_tgt as f32 - val).abs() < pixel_uncertainty as f32 (line 156)
within_uncertainty(pixel_tgt, val, pixel_uncertainty) ==
    LET d == IF pixel_tgt >= val THEN pixel_tgt - val ELSE val - pixel_tgt
    IN  d < pixel_uncertainty

\* the projection of lines 166-177, were the ratio taken upside down
projected_exposure_inverse(pixel_tgt, exposure_us, val) ==
    (exposure_us \div pixel_tgt) * val
      + (((exposure_us % pixel_tgt) * val) \div pixel_tgt)

\* pixel_tgt * exposure / val in microseconds, val floored at 1e-5
\* (lines 166-177); the quotient is split so that no product leaves the
\* integers of the model
projected_exposure(pixel_tgt, exposure_us, val) ==
    IF val = 0 THEN pixel_tgt * exposure_us * EpsilonInv
    ELSE (exposure_us \div val) * pixel_tgt
           + (((exposure_us % val) * pixel_tgt) \div val)

\* the loop of lines 182-185: tgt_exp is in seconds (t / 1e6) and is
\* compared with the number of microseconds of max_allowed_exp
RECURSIVE lower_bin(_, _, _)
lower_bin(t, bin_, max_allowed_exp) ==
    IF (t \div MicrosPerSec) < max_allowed_exp /\ bin_ > 2
    THEN lower_bin(t * 4, bin_ \div 2, max_allowed_exp)
    ELSE [exposure |-> t, bin |-> bin_]

\* the loop of lines 187-190: tgt_exp is t / (q * 1e6) seconds and is
\* again compared with the number of microseconds of max_allowed_exp
RECURSIVE raise_bin(_, _, _, _, _)
raise_bin(t, q, bin_, max_allowed_exp, max_allowed_bin) ==
    IF ((t - 1) \div (q * MicrosPerSec)) >= max_allowed_exp
         /\ bin_ * 2 <= max_allowed_bin
    THEN raise_bin(t, q * 4, bin_ * 2, max_allowed_exp, max_allowed_bin)
    ELSE [exposure |-> t \div q, bin |-> bin_]

\* lines 179-195
adjust_bin(t, bin, change_bin, max_allowed_exp, max_allowed_bin) ==
    IF ~change_bin THEN [exposure |-> t, bin |-> bin]
    ELSE IF t < max_allowed_exp THEN lower_bin(t, bin, max_allowed_exp)
    ELSE raise_bin(t, 1, bin, max_allowed_exp, max_allowed_bin)

\* lines 197-210, were the exposure not capped
clamp_result_uncapped(a, max_allowed_exp, max_allowed_bin) ==
    LET e2 == IF a.exposure < EpsilonMicros THEN EpsilonMicros
              ELSE a.exposure
        b1 == IF a.bin < 1 THEN 1 ELSE a.bin
        b2 == IF b1 > max_allowed_bin THEN max_allowed_bin ELSE b1
    IN  [exposure |-> e2, bin |-> b2]

\* lines 197-210: the exposure is capped, then floored; the bin is floored,
\* then capped
clamp_result(a, max_allowed_exp, max_allowed_bin) ==
    LET e1 == IF a.exposure > max_allowed_exp THEN max_allowed_exp
              ELSE a.exposure
        e2 == IF e1 < EpsilonMicros THEN EpsilonMicros ELSE e1
        b1 == IF a.bin < 1 THEN 1 ELSE a.bin
        b2 == IF b1 > max_allowed_bin THEN max_allowed_bin ELSE b1
    IN  [exposure |-> e2, bin |-> b2]

\* f is the frame (img, exposure, bin_x, bin_y) with the parameters of the
\* call; the answer is the pair returned, with the value sampled and the
\* exposure projected from it
find_optimum_exposure(f) ==
    LET img == sorted_pixels(f.img)
        coord == sample_coord(Len(img), f.percentile_pix, f.pixel_exclusion)
        val == img[coord + 1]
        t == projected_exposure(f.pixel_tgt, f.exposure, val)
    IN  IF within_uncertainty(f.pixel_tgt, val, f.pixel_uncertainty) THEN
            [exposure |-> f.exposure, bin |-> f.bin_x, converged |-> TRUE,
             coord |-> coord, val |-> val, projected |-> f.exposure]
        ELSE
            LET r == clamp_result(adjust_bin(t, f.bin_x, f.bin_x = f.bin_y,
                                             f.max_allowed_exp,
                                             f.max_allowed_bin),
                                  f.max_allowed_exp, f.max_allowed_bin)
            IN  [exposure |-> r.exposure, bin |-> r.bin, converged |-> FALSE,
                 coord |-> coord, val |-> val, projected |-> t]

\* frames of four pixels taken at 10 us, 1 s and 8 s, square and not
OptFrames ==
    [img : {<<20000, 100, 10000, 19000>>, <<19500, 0, 20500, 3>>},
     exposure : {10, 1000000, 8000000},
     bin_x : {1, 2, 4}, bin_y : {1, 2, 4}]

OptParameters ==
    [percentile_pix : {0, 50 * PercentDen, 100 * PercentDen - 1,
                       100 * PercentDen},
     pixel_tgt : {100, 20000},
     max_allowed_exp : {5, 20, 3000000, 10000000},
     max_allowed_bin : {1, 4},
     pixel_exclusion : {0, 1},
     pixel_uncertainty : {0, 1000}]

\* a call: a frame and its parameters
OptCall(fr, pa) ==
    [img |-> fr.img, exposure |-> fr.exposure, bin_x |-> fr.bin_x,
     bin_y |-> fr.bin_y, percentile_pix |-> pa.percentile_pix,
     pixel_tgt |-> pa.pixel_tgt, max_allowed_exp |-> pa.max_allowed_exp,
     max_allowed_bin |-> pa.max_allowed_bin,
     pixel_exclusion |-> pa.pixel_exclusion,
     pixel_uncertainty |-> pa.pixel_uncertainty]

\* the calls whose projected exposure stays below 2^31 microseconds
SmallProjection(f) ==
    LET img == sorted_pixels(f.img)
        val == img[sample_coord(Len(img), f.percentile_pix,
                                f.pixel_exclusion) + 1]
    IN  IF val = 0 THEN f.exposure <= (20000 \div f.pixel_tgt)
        ELSE (f.exposure \div val) <= 100000

\* a frame and the parameters of a call on it, nothing done yet
InitOpt ==
    /\ Opened
    /\ \E fr \in OptFrames, pa \in OptParameters :
         /\ SmallProjection(OptCall(fr, pa))
         /\ last = [NoLast EXCEPT !.op = "frame", !.arg = OptCall(fr, pa)]

find_optimum_exposure_call ==
    /\ last.op = "frame"
    /\ last' = [last EXCEPT !.op = "find_optimum_exposure", !.result = "Ok",
                            !.val = find_optimum_exposure(last.arg)]
    /\ UNCHANGED <<props, refs, capturing, lock, driver, hw_status, hw_geom, hw_ctl,
                   pc, stat, roi_md, call>>

NextOpt == find_optimum_exposure_call

SpecOpt == InitOpt /\ [][NextOpt]_vars

(***************************************************************************)
(* ImageMetaData and ImageData: the extended attributes                    *)
(* (imagedata.rs lines 59-69 and 93-95)                                    *)
(***************************************************************************)
MaxAttribs == 2     \* pairs added to one image

AttribKeys == {"OBSERVER", "FILTER"}
AttribValues == {"a", "b"}

\* an image as capture_image returns it: no extended attribute yet
NewImages ==
    [img : {<<20000, 100, 10000, 19000>>},
     meta : [bin_x : {1, 2}, bin_y : {1}, exposure : {InitialExposure},
             camera_name : {"ASI294MC"}, extended_metadata : {<< >>}]]

\* ImageMetaData::add_extended_attrib, were a pair of the same key replaced
add_extended_attrib_overwrite(meta, key, val) ==
    LET ext == meta.extended_metadata
        same == {i \in 1..Len(ext) : ext[i][1] = key}
    IN  IF same = {}
        THEN [meta EXCEPT !.extended_metadata = Append(ext, <<key, val>>)]
        ELSE [meta EXCEPT !.extended_metadata =
                [i \in 1..Len(ext) |->
                   IF i \in same THEN <<key, val>> ELSE ext[i]]]

\* ImageMetaData::add_extended_attrib (lines 65-68): Vec::push
add_extended_attrib(meta, key, val) ==
    [meta EXCEPT !.extended_metadata = Append(@, <<key, val>>)]

\* ImageData::add_extended_attrib (lines 93-95)
image_add_extended_attrib(image, key, val) ==
    [image EXCEPT !.meta = add_extended_attrib(@, key, val)]

InitMeta ==
    /\ Opened
    /\ \E image \in NewImages :
         last = [NoLast EXCEPT !.op = "image", !.val = image]

\* the attribute is added through the image
ImageData_add_extended_attrib(key, val) ==
    /\ last.op \in {"image", "add_extended_attrib"}
    /\ Len(last.val.meta.extended_metadata) < MaxAttribs
    /\ last' = [NoLast EXCEPT
                  !.op = "add_extended_attrib",
                  !.arg = [on |-> "ImageData", before |-> last.val,
                           key |-> key, val |-> val],
                  !.result = "Ok",
                  !.val = image_add_extended_attrib(last.val, key, val)]
    /\ UNCHANGED <<props, refs, capturing, lock, driver, hw_status, hw_geom, hw_ctl,
                   pc, stat, roi_md, call>>

\* the attribute is added to the metadata itself
ImageMetaData_add_extended_attrib(key, val) ==
    /\ last.op \in {"image", "add_extended_attrib"}
    /\ Len(last.val.meta.extended_metadata) < MaxAttribs
    /\ last' = [NoLast EXCEPT
                  !.op = "add_extended_attrib",
                  !.arg = [on |-> "ImageMetaData", before |-> last.val,
                           key |-> key, val |-> val],
                  !.result = "Ok",
                  !.val = [last.val EXCEPT
                             !.meta = add_extended_attrib(@, key, val)]]
    /\ UNCHANGED <<props, refs, capturing, lock, driver, hw_status, hw_geom, hw_ctl,
                   pc, stat, roi_md, call>>

NextMeta ==
    \/ \E key \in AttribKeys, val \in AttribValues :
         ImageData_add_extended_attrib(key, val)
    \/ \E key \in AttribKeys, val \in AttribValues :
         ImageMetaData_add_extended_attrib(key, val)

SpecMeta == InitMeta /\ [][NextMeta]_vars
(***************************************************************************)
(* The handles of one camera: CameraUnit_ASI and CameraInfo_ASI hold       *)
(* clones of one Arc<ASICamId> (lines 183 and 224); CameraInfo_ASI is      *)
(* Clone (line 38).  The ASICamId is dropped with its last owner.          *)
(***************************************************************************)
MaxInfoHandles == 2     \* info handles alive at one time

\* Arc::strong_count of the id
strong_count(h) == (IF h.driver THEN 1 ELSE 0) + h.info

\* impl Drop for ASICamId (lines 1159-1172): ASIStopExposure, then
\* ASICloseCamera, whatever the first returns
ASICamId_drop(td) == [stop |-> td.stop + 1, close |-> td.close + 1]

\* the release of one owner, were the id torn down with every handle
release_id_each(h, td) == ASICamId_drop(td)

\* the release of one owner of the Arc: the last one drops the ASICamId
release_id(h, td) == IF strong_count(h) = 1 THEN ASICamId_drop(td) ELSE td

\* what the release does to the camera: the stop of the teardown, if issued
HwAfterRelease(h, st) ==
    IF release_id(h, teardown) = teardown THEN {st}
    ELSE UNION {HwAfterStop(res, st) : res \in IdCodes}

HandleAlive(h) == IF h = "driver" THEN handles.driver ELSE handles.info > 0

\* the driver handle goes out of scope; no call borrows it
drop_driver ==
    /\ handles.driver
    /\ Exclusive
    /\ handles' = [handles EXCEPT !.driver = FALSE]
    /\ teardown' = release_id(handles, teardown)
    /\ hw_status' \in HwAfterRelease(handles, hw_status)
    /\ last' = [NoLast EXCEPT !.op = "drop", !.arg = "driver",
                              !.flag0 = capturing]
    /\ UNCHANGED <<props, capturing, lock, driver, hw_geom, hw_ctl, pc, stat,
                   roi_md, call>>

\* an info handle goes out of scope
drop_info ==
    /\ handles.info > 0
    /\ handles' = [handles EXCEPT !.info = @ - 1]
    /\ teardown' = release_id(handles, teardown)
    /\ hw_status' \in HwAfterRelease(handles, hw_status)
    /\ last' = [NoLast EXCEPT !.op = "drop", !.arg = "info",
                              !.flag0 = capturing]
    /\ UNCHANGED <<props, capturing, lock, driver, hw_geom, hw_ctl, pc, stat,
                   roi_md, call>>

\* CameraInfo_ASI::clone (line 38)
clone_info ==
    /\ handles.info > 0
    /\ handles.info < MaxInfoHandles
    /\ handles' = [handles EXCEPT !.info = @ + 1]
    /\ last' = [NoLast EXCEPT !.op = "clone", !.arg = "info",
                              !.flag0 = capturing]
    /\ UNCHANGED <<props, capturing, lock, driver, hw_status, hw_geom, hw_ctl,
                   pc, stat, roi_md, call, teardown>>

\* one caller uses the driver handle while it has it; the handles are
\* cloned and dropped in any order
NextDrop ==
    \/ handles.driver /\ ThreadStep(Caller)
    \/ \E h \in Handles : HandleAlive(h) /\ is_capturing_call(Caller, h)
    \/ HwExposureEnds
    \/ clone_info
    \/ drop_info
    \/ drop_driver

SpecDrop == Init /\ [][NextDrop]_vars
(***************************************************************************)
(* Specification of the poll loop: one caller captures with exposures on   *)
(* both sides of each threshold of lines 571 and 579.                      *)
(***************************************************************************)
PollExposureInputs == {exp_min, 15999, 16000, 999999, 1000000}

NextPoll ==
    \/ ThreadStep(Caller)
    \/ HwExposureEnds
    \/ \E e \in PollExposureInputs : set_exposure(e)

SpecPoll == Init /\ [][NextPoll]_vars

(***************************************************************************)
(* Specification of set_roi on its own output: requests are made, and the  *)
(* ROI that get_roi returns is passed back.                                *)
(***************************************************************************)
\* get_roi (lines 730-732): the stored ROI
get_roi == roi

\* a region at bin 1 and a region at bin 2
AgainRequests ==
    { [x_min |-> 300, x_max |-> 2700, y_min |-> 800, y_max |-> 2100,
       bin_x |-> 1, bin_y |-> 1],
      [x_min |-> 8, x_max |-> 1010, y_min |-> 4, y_max |-> 905,
       bin_x |-> 2, bin_y |-> 2] }

\* set_roi(get_roi()), called once a request has succeeded
set_roi_again ==
    /\ last.op = "set_roi"
    /\ last.result = "Ok"
    /\ last.arg \in AgainRequests
    /\ set_roi(get_roi)

NextRoiAgain ==
    \/ \E req \in AgainRequests : set_roi(req)
    \/ set_roi_again

SpecRoiAgain == Init /\ [][NextRoiAgain]_vars
(***************************************************************************)
(* ImageData::save_fits (imagedata.rs lines 220-329) and the destination   *)
(* path: "old" is a file that was there before the call, "new" the file    *)
(* the call wrote, "partial" a file the call created and did not finish,   *)
(* "none" no file.                                                         *)
(***************************************************************************)
\* the outcomes of remove_file (line 249)
RemoveResults == {"ok", "err"}

\* the step of the FITS library that fails, if any: FitsFile::create (line
\* 290), create_image (292), write_image (295, 298), write_key (307-326)
FitsResults == {"ok", "create", "create_image", "write_image", "write_key"}

\* a call: whether the directory exists, what is at the destination,
\* the overwrite and compress arguments and the pixel type of the image
\* (compress only adds "[compress]" to the path given to the library,
\* lines 284-289)
SaveCalls ==
    { a \in [dir : BOOLEAN, file : {"none", "old"}, overwrite : BOOLEAN,
             compress : BOOLEAN, pixel : {"Luma8", "Luma16", "Rgb8"}] :
        a.file = "old" => a.dir }

\* lines 259-329, reached with nothing at the destination: the pixel type
\* is matched, then the file is created and written
write_fits(a, fits) ==
    IF a.pixel \notin {"Luma8", "Luma16"} THEN
        [result |-> "Message(Unsupported image type)", file |-> "none"]
    ELSE IF fits = "create" THEN
        [result |-> "Fits(create)", file |-> "none"]
    ELSE IF fits # "ok" THEN
        [result |-> "Fits(write)", file |-> "partial"]
    ELSE
        [result |-> "Ok", file |-> "new"]

\* lines 228-257, then write_fits: the result and what is at the
\* destination afterwards
save_fits(a, rm, fits) ==
    IF ~a.dir THEN
        [result |-> "Message(Directory does not exist)", file |-> a.file]
    ELSE IF a.file = "old" /\ ~a.overwrite THEN
        [result |-> "Message(File already exists)", file |-> a.file]
    ELSE IF a.file = "old" /\ rm = "err" THEN
        [result |-> "Message(Could not remove file)", file |-> a.file]
    ELSE write_fits(a, fits)

InitSave ==
    /\ Opened
    /\ \E a \in SaveCalls : last = [NoLast EXCEPT !.op = "file", !.arg = a]

\* val is what is at the destination when save_fits returns
save_fits_call ==
    /\ last.op = "file"
    /\ \E rm \in RemoveResults, fits \in FitsResults :
         LET o == save_fits(last.arg, rm, fits)
         IN  last' = [NoLast EXCEPT !.op = "save_fits", !.arg = last.arg,
                                    !.result = o.result, !.val = o.file]
    /\ UNCHANGED <<props, refs, capturing, lock, driver, hw_status, hw_geom,
                   hw_ctl, pc, stat, roi_md, call>>

NextSave == save_fits_call

SpecSave == InitSave /\ [][NextSave]_vars
(***************************************************************************)
(* Properties of the capture state machine                                 *)
(***************************************************************************)
\* a capture_image call that has issued the start command and not returned
Outstanding(t) ==
    /\ pc[t] \in {"poll", "ci_relock", "ci_finish"}
    /\ "StartExposure" \in call[t].cmds

\* C1: a capture_image call that runs its entry block while another call has
\* started an exposure and not yet returned, returns ExposureInProgress
\* (or the error of its status query) and issues no start command; so at
\* most one started exposure is outstanding at any time.
C1_ExclusiveExposure ==
    /\ [][\A t \in Threads :
            (/\ pc[t] = "ci_trigger"
             /\ pc'[t] # "ci_trigger"
             /\ \E u \in Threads \ {t} : Outstanding(u))
            => (/\ pc'[t] = "idle"
                /\ last'.result \in
                     {"ExposureInProgress", "InvalidId", "CameraClosed"}
                /\ "StartExposure" \notin last'.cmds)]_vars
    /\ [](Cardinality({t \in Threads : Outstanding(t)}) <= 1)

\* C2: a capture_image call whose status query at entry reports Working
\* returns ExposureInProgress, leaves the capturing flag true and has issued
\* no start command.
C2_WorkingIsAdopted ==
    (last.op = "capture_image" /\ last.stat0 = "Working")
    => (/\ last.result = "ExposureInProgress"
        /\ capturing = TRUE
        /\ "StartExposure" \notin last.cmds)

\* a capture_image call has just found the camera Working while the flag
\* was false
C2_Witness ==
    /\ last.op = "capture_image"
    /\ last.stat0 = "Working"
    /\ last.flag0 = FALSE
    /\ last.result = "ExposureInProgress"

\* C3: cancel_capture called with the capturing flag false returns Ok, issues
\* no stop command and leaves the flag false.
C3_CancelWhenIdle ==
    (last.op = "cancel_capture" /\ last.flag0 = FALSE)
    => (/\ last.result = "Ok"
        /\ "StopExposure" \notin last.cmds
        /\ capturing = FALSE)

\* C4: after cancel_capture returns Ok the capturing flag is false, and if
\* the flag was true at the call a stop command was issued during it.
C4_CancelForcesIdle ==
    (last.op = "cancel_capture" /\ last.result = "Ok")
    => (/\ capturing = FALSE
        /\ (last.flag0 => "StopExposure" \in last.cmds))

\* C5: a cancel_capture call made while another thread is in the poll loop
\* of capture_image and the camera reports Working issues the stop command.
C5_CancelStopsPolledExposure ==
    (last.op = "cancel_capture" /\ last.ctx)
    => "StopExposure" \in last.cmds

\* C6: a capture_image call whose download fails with invalid-id,
\* camera-closed or timeout returns that error with the capturing flag false.
C6_FailedReadoutResetsFlag ==
    (/\ last.op = "capture_image"
     /\ "GetDataAfterExp" \in last.cmds
     /\ last.result \in {"InvalidId", "CameraClosed", "TimedOut"})
    => capturing = FALSE

\* C7: when polling ends with Failed, capture_image returns ExposureFailed;
\* when it ends with Idle, it returns the 'no available data' failure; in
\* both cases no download is attempted and the flag is false on return; the
\* download is attempted only when polling ends with Success.
C7_FinalStatusOutcome ==
    last.op = "capture_image" =>
        /\ last.stat = "Failed" =>
               /\ last.result = "ExposureFailed(Unknown)"
               /\ "GetDataAfterExp" \notin last.cmds
               /\ capturing = FALSE
        /\ last.stat = "Idle" =>
               /\ last.result = "ExposureFailed(No data)"
               /\ "GetDataAfterExp" \notin last.cmds
               /\ capturing = FALSE
        /\ "GetDataAfterExp" \in last.cmds => last.stat = "Success"

\* a capture_image call has just returned after its poll loop ended with Idle
C7_Witness ==
    /\ last.op = "capture_image"
    /\ last.stat = "Idle"
    /\ last.result = "ExposureFailed(No data)"

\* C8: a capture_image call that directly follows the return of a capture
\* that reported a failed exposure, and finds the camera still reporting
\* Failed, issues a new start command.
C8_RetryAfterFailure ==
    (last.op = "capture_image" /\ last.ctx /\ last.stat0 = "Failed")
    => "StartExposure" \in last.cmds

(***************************************************************************)
(* Properties of the setters                                               *)
(***************************************************************************)
SdkWrites == {"SetControlValue", "SetROIFormat", "SetStartPos",
              "StartExposure", "StopExposure"}

GuardedSetters == {"set_exposure", "set_gain", "set_gain_raw", "set_roi",
                   "set_shutter_open"}

\* the request of the call that just returned is one its setter's own
\* checks accept
RequestAccepted ==
    \/ last.op = "set_exposure" /\ exp_min <= last.arg /\ last.arg <= exp_max
    \/ last.op = "set_gain_raw" /\ gain_min <= last.arg /\ last.arg <= gain_max
    \/ /\ last.op = "set_gain"
       /\ 0 <= last.arg /\ last.arg <= 100 * GainDen
       /\ gain_min <= gain_to_raw(last.arg)
       /\ gain_to_raw(last.arg) <= gain_max
    \/ last.op = "set_roi" /\ normalize_roi(props, last.arg).result = "Ok"
    \/ last.op = "set_shutter_open"

\* C9 as stated: a setter called while the capturing flag is true fails with
\* ExposureInProgress, issues no hardware write and leaves the stored
\* exposure, ROI and shutter state unchanged.
C9_SettersRefusedWhileExposing ==
    (last.op \in GuardedSetters /\ last.flag0)
    => (/\ last.result = "ExposureInProgress"
        /\ last.cmds \cap SdkWrites = {}
        /\ ~last.changed)

\* C9 as amended: a setter called while the capturing flag is true fails,
\* issues no hardware write and leaves the stored exposure, ROI and shutter
\* state unchanged; the error is ExposureInProgress when the request passes
\* the setter's own checks, and the error of those checks otherwise.
C9_SettersFailWhileExposing ==
    (last.op \in GuardedSetters /\ last.flag0)
    => (/\ IsErr(last.result)
        /\ last.cmds \cap SdkWrites = {}
        /\ ~last.changed
        /\ RequestAccepted => last.result = "ExposureInProgress"
        /\ ~RequestAccepted => last.result \in {"InvalidValue", "OutOfBounds"})

\* set_exposure has just refused a request within its range because a
\* capture is in progress
C9_Witness ==
    /\ last.op = "set_exposure"
    /\ last.flag0
    /\ RequestAccepted
    /\ last.result = "ExposureInProgress"

\* the request of the call that just returned is outside the range its
\* setter accepts
OutOfRange ==
    \/ last.op = "set_exposure" /\ (last.arg < exp_min \/ last.arg > exp_max)
    \/ last.op = "set_gain_raw" /\ (last.arg < gain_min \/ last.arg > gain_max)
    \/ last.op = "set_gain" /\ (last.arg < 0 \/ last.arg > 100 * GainDen)
    \/ /\ last.op = "set_temperature"
       /\ (last.arg < TempMin * TempDen \/ last.arg > TempMax * TempDen)

\* C10 as stated: an out-of-range set_exposure, set_gain_raw, set_gain or
\* set_temperature returns InvalidValue with no SDK call and no change of
\* driver state, whether or not a capture is in progress.
C10_OutOfRangeIsInvalidValue ==
    OutOfRange
    => (/\ last.result = "InvalidValue"
        /\ last.cmds = {}
        /\ ~last.changed)

\* C10 as amended: such a request is rejected with no SDK call and no change
\* of driver state, whether or not a capture is in progress; the error is
\* InvalidValue, except that set_temperature on a camera without a cooler
\* returns the not-supported error (InvalidControlType) whatever the value.
C10_OutOfRangeRejected ==
    OutOfRange
    => (/\ last.result =
             IF last.op = "set_temperature" /\ ~props.is_cooler_cam
             THEN "InvalidControlType" ELSE "InvalidValue"
        /\ last.cmds = {}
        /\ ~last.changed)

\* an out-of-range exposure has just been rejected while a capture is in
\* progress
C10_Witness ==
    /\ last.op = "set_exposure"
    /\ last.arg > exp_max
    /\ last.flag0
    /\ last.result = "InvalidValue"

\* C11: a successful set_exposure, set_gain_raw or set_gain has read the
\* control back and returns the value the camera holds after the write;
\* the stored exposure equals it; a read-back that failed is therefore
\* never answered with a success value.
C11_ReturnsReadBack ==
    (last.op \in {"set_exposure", "set_gain_raw", "set_gain"}
       /\ last.result = "Ok")
    => /\ "GetControlValue" \in last.cmds
       /\ last.op = "set_exposure"
            => (last.val = hw_ctl.Exposure /\ exposure = hw_ctl.Exposure)
       /\ last.op = "set_gain_raw" => last.val = hw_ctl.Gain
       /\ last.op = "set_gain" => last.val = hw_ctl.Gain - gain_min

(***************************************************************************)
(* Properties of is_capturing                                              *)
(***************************************************************************)
\* C12: is_capturing, on the info handle as on the driver handle, never
\* waits and answers the shared flag when the mutex is free and true when
\* the mutex is held.
C12_TryLockRead ==
    last.op = "is_capturing"
    => /\ last.arg \in Handles
       /\ ~last.ctx => last.val = last.flag0
       /\ last.ctx => last.val = TRUE

\* the info handle was asked while another thread held the mutex with the
\* flag still false, and answered true
C12_Witness ==
    /\ last.op = "is_capturing"
    /\ last.arg = "info"
    /\ last.ctx
    /\ ~last.flag0
    /\ last.val = TRUE

\* C13: while a capture_image call is between its start command and its
\* return, is_capturing answers true on every handle.
C13_ExposingIsVisible ==
    (last.op = "is_capturing" /\ \E t \in Threads : Outstanding(t))
    => last.val = TRUE

(***************************************************************************)
(* Properties of the geometry                                              *)
(***************************************************************************)
\* the request has a supported square bin and lies within the sensor
InBounds(p, req) ==
    /\ req.bin_x = req.bin_y
    /\ req.bin_x \in p.supported_bins
    /\ 0 <= req.x_min /\ req.x_min <= req.x_max /\ req.x_max <= p.max_width
    /\ 0 <= req.y_min /\ req.y_min <= req.y_max /\ req.y_max <= p.max_height

\* width and height of a request with a positive bin, in binned pixels, cut
\* to a multiple of 8 and of 2
CutWidth(p, req) ==
    LET hi == IF req.x_max <= 0 THEN p.max_width ELSE req.x_max
        w == TruncDiv(hi, req.bin_x) - TruncDiv(req.x_min, req.bin_x)
    IN  w - TruncRem(w, 8)

CutHeight(p, req) ==
    LET hi == IF req.y_max <= 0 THEN p.max_height ELSE req.y_max
        h == TruncDiv(hi, req.bin_x) - TruncDiv(req.y_min, req.bin_x)
    IN  h - TruncRem(h, 2)

\* the camera is one of the non-USB3 ASI120 family and the cut area of the
\* request is not a multiple of 1024
LegacyAreaRefused(p, req) ==
    /\ ~p.is_usb3_camera
    /\ p.name \in ASI120Names
    /\ (CutWidth(p, req) * CutHeight(p, req)) % 1024 # 0

HardwareErrors == {"InvalidId", "CameraClosed"}

\* the ROI returned by a successful set_roi is the stored one, is cut to
\* the alignment and has the bin of the request
AcceptedRoiAligned ==
    last.result = "Ok"
    => /\ last.val = roi
       /\ (roi.x_max - roi.x_min) % 8 = 0
       /\ (roi.y_max - roi.y_min) % 2 = 0
       /\ roi.bin_x = last.arg.bin_x
       /\ roi.bin_y = last.arg.bin_x

\* C14 as stated: set_roi with no capture in progress accepts every request
\* with a supported square bin that lies within the sensor (it fails only
\* when the camera itself reports an error), and the resulting ROI has a
\* width that is a multiple of 8, a height that is a multiple of 2 and the
\* requested bin.
C14_InBoundsRoiAccepted ==
    (last.op = "set_roi" /\ ~last.flag0 /\ InBounds(props, last.arg))
    => /\ last.result \in {"Ok"} \cup HardwareErrors
       /\ AcceptedRoiAligned

\* C14 as amended: the same, except that a non-USB3 ASI120 camera refuses
\* with InvalidValue, before any SDK call, a request whose cut width times
\* cut height is not a multiple of 1024.
C14_InBoundsRoiAcceptedButLegacy ==
    (last.op = "set_roi" /\ ~last.flag0 /\ InBounds(props, last.arg))
    => IF LegacyAreaRefused(props, last.arg)
       THEN last.result = "InvalidValue" /\ last.cmds = {} /\ ~last.changed
       ELSE /\ last.result \in {"Ok"} \cup HardwareErrors
            /\ AcceptedRoiAligned

\* the request of the scenario has just been accepted on a 3008x2200 sensor
\* with width 2400 and height 1300
C14_Witness ==
    /\ last.op = "set_roi"
    /\ last.arg = [x_min |-> 300, x_max |-> 2700, y_min |-> 800,
                   y_max |-> 2100, bin_x |-> 1, bin_y |-> 1]
    /\ props.max_width = 3008 /\ props.max_height = 2200
    /\ ~last.flag0
    /\ last.result = "Ok"
    /\ roi.x_max - roi.x_min = 2400
    /\ roi.y_max - roi.y_min = 1300
    /\ roi.bin_x = 1

\* the request is one that the checks of set_roi refuse
RefusedRequest(p, req) ==
    \/ req.bin_x # req.bin_y
    \/ req.bin_x < 1
    \/ req.bin_x \notin p.supported_bins
    \/ TruncDiv(req.x_min, req.bin_x) + CutWidth(p, req)
         > TruncDiv(p.max_width, req.bin_x)
    \/ TruncDiv(req.y_min, req.bin_x) + CutHeight(p, req)
         > TruncDiv(p.max_height, req.bin_x)

\* C15: a set_roi request with unequal bins, a bin below 1, an unsupported
\* bin, or a cut x_max or y_max beyond the binned sensor returns an error
\* with no SDK call and leaves the stored ROI unchanged.
C15_RefusedRoiTouchesNothing ==
    (last.op = "set_roi" /\ RefusedRequest(props, last.arg))
    => /\ IsErr(last.result)
       /\ last.result \in {"InvalidValue", "OutOfBounds"}
       /\ last.cmds = {}
       /\ ~last.changed

\* a request beyond the sensor has just been refused after an earlier
\* request had replaced the stored ROI
C15_Witness ==
    /\ last.op = "set_roi"
    /\ last.arg.bin_x = 1 /\ last.arg.bin_y = 1
    /\ last.arg.x_max > props.max_width
    /\ last.result = "OutOfBounds"
    /\ roi # InitialRoi(props)

\* the invariant of the stored ROI
RoiInvariant ==
    /\ roi.bin_x = roi.bin_y
    /\ roi.bin_x >= 1
    /\ roi.bin_x \in props.supported_bins
    /\ (roi.x_max - roi.x_min) % 8 = 0
    /\ (roi.y_max - roi.y_min) % 2 = 0
    /\ roi.x_max <= TruncDiv(props.max_width, roi.bin_x)
    /\ roi.y_max <= TruncDiv(props.max_height, roi.bin_x)

\* C16: the stored ROI starts as the full frame with bin 1, satisfies its
\* invariant in every reachable state, and changes only in a set_roi call
\* that returns Ok, which replaces it by the ROI it returns.
C16_StoredRoiInvariant ==
    /\ roi = [x_min |-> 0, x_max |-> props.max_width, y_min |-> 0,
              y_max |-> props.max_height, bin_x |-> 1, bin_y |-> 1]
    /\ []RoiInvariant
    /\ [][roi' # roi => /\ last'.op = "set_roi"
                        /\ last'.result = "Ok"
                        /\ last'.val = roi']_vars

\* a set_roi call failed on a camera error after an earlier call had
\* replaced the stored ROI by one with bin 2
C16_Witness ==
    /\ last.op = "set_roi"
    /\ last.result \in HardwareErrors
    /\ roi.bin_x = 2
    /\ roi.x_max - roi.x_min = 496

\* C17: after every return of set_roi the geometry the camera holds (width,
\* height, bin, start position) is that of the stored ROI.
C17_HardwareAgreesWithStoredRoi ==
    last.op = "set_roi"
    => /\ hw_roi.width = roi.x_max - roi.x_min
       /\ hw_roi.height = roi.y_max - roi.y_min
       /\ hw_roi.bin = roi.bin_x
       /\ hw_start = <<roi.x_min, roi.y_min>>

\* C18: set_roi returns Ok only when the geometry write and the start
\* position write were both applied: the camera then holds the geometry
\* and the start position of the ROI returned.
C18_NoSilentPartialSuccess ==
    (last.op = "set_roi" /\ last.result = "Ok")
    => /\ {"SetROIFormat", "SetStartPos"} \subseteq last.cmds
       /\ hw_roi.width = last.val.x_max - last.val.x_min
       /\ hw_roi.height = last.val.y_max - last.val.y_min
       /\ hw_roi.bin = last.val.bin_x
       /\ hw_start = <<last.val.x_min, last.val.y_min>>

(***************************************************************************)
(* Properties of the gain mapping                                          *)
(***************************************************************************)
\* a / b rounded to the nearest integer, for a >= 0 and b > 0
RoundDiv(a, b) == (2 * a + b) \div (2 * b)

ControlErrors == {"InvalidId", "InvalidControlType", "CameraClosed", "Message"}

\* C19: set_gain writes raw = round(n * (gain_max - gain_min) + gain_min)
\* and get_gain answers (raw - gain_min) / (gain_max - gain_min); 0.0 is
\* written as gain_min and 1.0 as gain_max; for n in {0.0, 0.5, 1.0} the raw
\* gain written, converted back, is within one raw step of n.
C19_GainMapping ==
    /\ (last.op = "set_gain" /\ "SetControlValue" \in last.cmds
          /\ last.result = "Ok")
       => /\ hw_ctl.Gain =
               RoundDiv(last.arg * (gain_max - gain_min) + gain_min * GainDen,
                        GainDen)
          /\ last.arg = 0 => hw_ctl.Gain = gain_min
          /\ last.arg = GainDen => hw_ctl.Gain = gain_max
          /\ last.arg \in {0, GainHalf, GainDen}
               => LET d == (hw_ctl.Gain - gain_min) * GainDen
                           - last.arg * (gain_max - gain_min)
                  IN  -GainDen <= d /\ d <= GainDen
    /\ (last.op = "get_gain" /\ last.ctx)
       => last.val = hw_ctl.Gain - gain_min

\* C20: with no capture in progress set_gain is refused with InvalidValue
\* exactly for the normalized gains outside 0..100; a gain inside is mapped
\* to a raw gain within [gain_min, gain_max] and can fail only on an error
\* of the camera.
C20_AcceptedGainsSucceed ==
    (last.op = "set_gain" /\ ~last.flag0)
    => IF 0 <= last.arg /\ last.arg <= 100 * GainDen
       THEN /\ last.result \in {"Ok"} \cup ControlErrors
            /\ "SetControlValue" \in last.cmds
            /\ gain_min <= hw_ctl.Gain /\ hw_ctl.Gain <= gain_max
       ELSE last.result = "InvalidValue"

\* C21: with no capture in progress set_offset writes the offset to the
\* camera and returns the value the camera confirms, which a following
\* get_offset returns too; while a capture is in progress it fails with
\* ExposureInProgress.
C21_SetOffsetWritesOffset ==
    last.op = "set_offset"
    => IF last.flag0
       THEN last.result = "ExposureInProgress"
       ELSE /\ "SetControlValue" \in last.cmds
            /\ last.result = "Ok" => last.val = hw_ctl.Offset

\* C22: set_shutter_open and get_shutter_open on a camera without a
\* mechanical shutter and set_temperature on a camera without a cooler
\* return the not-supported error, write nothing to the camera and change
\* nothing; the operations the driver leaves to the trait return "Not
\* implemented" or a neutral default.
NotSupported(l) ==
    l.result = "InvalidControlType" /\ l.cmds = {} /\ ~l.changed

C22_LackingCapabilityNotSupported ==
    /\ (last.op \in {"set_shutter_open", "get_shutter_open"}
          /\ ~props.mechanical_shutter) => NotSupported(last)
    /\ (last.op = "set_temperature" /\ ~props.is_cooler_cam)
          => NotSupported(last)
    /\ last.op \in {"set_offset", "set_cooler_power"}
          => last.result = "Message(Not implemented)" /\ last.cmds = {}
    /\ last.op = "get_last_image" => last.result = "None"
    /\ last.op = "get_status" => last.result = "Not implemented"
(***************************************************************************)
(* Properties of the exposure optimizer                                    *)
(***************************************************************************)
Optimized == last.op = "find_optimum_exposure"

\* the distance of the sampled value from the target
TargetDistance ==
    IF last.arg.pixel_tgt >= last.val.val
    THEN last.arg.pixel_tgt - last.val.val
    ELSE last.val.val - last.arg.pixel_tgt

ReturnedUnchanged ==
    /\ last.val.exposure = last.arg.exposure
    /\ last.val.bin = last.arg.bin_x

\* C23: when the sampled value lies within pixel_uncertainty of pixel_tgt,
\* find_optimum_exposure returns the frame's own (exposure, bin) pair.
C23_ConvergedReturnsUnchanged ==
    (Optimized /\ TargetDistance <= last.arg.pixel_uncertainty)
    => ReturnedUnchanged

\* C23, amended: when the sampled value is nearer to pixel_tgt than
\* pixel_uncertainty, find_optimum_exposure returns the frame's own
\* (exposure, bin) pair.
C23_StrictlyConvergedReturnsUnchanged ==
    (Optimized /\ TargetDistance < last.arg.pixel_uncertainty)
    => ReturnedUnchanged

\* a frame that is off target by less than the tolerance, and that the
\* clamps would have changed
C23_Witness ==
    /\ Optimized
    /\ 0 < TargetDistance /\ TargetDistance < last.arg.pixel_uncertainty
    /\ last.arg.exposure > last.arg.max_allowed_exp
    /\ ReturnedUnchanged

\* target 20000, sampled 10000, exposure 1 s
ScalingScenario ==
    /\ Optimized
    /\ last.arg.pixel_tgt = 20000
    /\ last.val.val = 10000
    /\ last.arg.exposure = MicrosPerSec

\* the projection is exposure * pixel_tgt / val cut to a microsecond, val
\* being at least 1e-5; stated where the products stay small
ProjectionIsScaled ==
    (Optimized /\ ~last.val.converged /\ last.arg.exposure <= EpsilonMicros)
    => IF last.val.val = 0
       THEN last.val.projected =
              last.arg.exposure * last.arg.pixel_tgt * EpsilonInv
       ELSE /\ last.val.val * last.val.projected
                 <= last.arg.exposure * last.arg.pixel_tgt
            /\ last.arg.exposure * last.arg.pixel_tgt
                 < last.val.val * (last.val.projected + 1)

C25_BinPromotion ==
    /\ (Optimized /\ ~last.val.converged
          /\ last.arg.bin_x = 1 /\ last.arg.bin_y = 1
          /\ last.arg.max_allowed_bin = 4
          /\ last.val.projected > last.arg.max_allowed_exp)
       => last.val.bin =
            IF ((last.val.projected - 1) \div 4) >= last.arg.max_allowed_exp
            THEN 4 ELSE 2
    /\ (Optimized /\ ~last.val.converged)
       => last.val.bin <= last.arg.max_allowed_bin

InResultRange ==
    /\ EpsilonMicros <= last.val.exposure
    /\ last.val.exposure <= last.arg.max_allowed_exp
    /\ 1 <= last.val.bin
    /\ last.val.bin <= last.arg.max_allowed_bin

\* C26: for every frame and every parameter set the pair returned has
\* 10 us <= exposure <= max_allowed_exp and 1 <= bin <= max_allowed_bin.
C26_ResultClamped == Optimized => InResultRange

\* C26, amended: for every frame that is not converged, max_allowed_exp
\* being at least 10 us, the pair returned has 10 us <= exposure <=
\* max_allowed_exp and 1 <= bin <= max_allowed_bin.
C26_UnconvergedResultClamped ==
    (Optimized /\ ~last.val.converged
       /\ last.arg.max_allowed_exp >= EpsilonMicros)
    => InResultRange

\* a projection above the cap, returned as the cap
C26_Witness ==
    /\ Optimized /\ ~last.val.converged
    /\ last.arg.max_allowed_exp >= EpsilonMicros
    /\ last.val.projected > last.arg.max_allowed_exp
    /\ last.val.exposure = last.arg.max_allowed_exp
    /\ last.arg.bin_x > last.arg.max_allowed_bin
    /\ last.val.bin = last.arg.max_allowed_bin
(***************************************************************************)
(* Properties of the extended attributes                                   *)
(***************************************************************************)
AttribAdded == last.op = "add_extended_attrib"

\* C27: add_extended_attrib on the metadata or on the image puts the pair
\* at the end of the extended list: the list is one longer, the pairs it
\* held keep their values and their order, a key already present is kept
\* next to the new pair, and nothing else of the image changes.
C27_AttribAppended ==
    AttribAdded
    => LET old == last.arg.before.meta.extended_metadata
           new == last.val.meta.extended_metadata
       IN  /\ Len(new) = Len(old) + 1
           /\ SubSeq(new, 1, Len(old)) = old
           /\ new[Len(new)] = <<last.arg.key, last.arg.val>>
           /\ [last.val.meta EXCEPT !.extended_metadata = old]
                = last.arg.before.meta
           /\ last.val.img = last.arg.before.img

\* a key is added a second time with another value
C27_Witness ==
    /\ AttribAdded
    /\ LET old == last.arg.before.meta.extended_metadata
           new == last.val.meta.extended_metadata
       IN  /\ \E i \in 1..Len(old) :
                old[i][1] = last.arg.key /\ old[i][2] # last.arg.val
           /\ Len(new) = Len(old) + 1
(***************************************************************************)
(* Properties of the handles                                               *)
(***************************************************************************)
\* C28: the stop-exposure and close-camera calls of the teardown are issued
\* exactly once, when the last handle holding the id is dropped, and never
\* while a handle of the camera is alive.
C28_TeardownOnLastDrop ==
    /\ teardown.close = (IF strong_count(handles) = 0 THEN 1 ELSE 0)
    /\ teardown.stop = teardown.close

\* the last handle dropped was an info handle
C28_Witness ==
    /\ strong_count(handles) = 0
    /\ last.op = "drop" /\ last.arg = "info"
    /\ teardown = [stop |-> 1, close |-> 1]
(***************************************************************************)
(* Properties of set_roi at the edge of its checks                         *)
(***************************************************************************)
\* the binned extent of the request in x or in y is negative, x_max and
\* y_max being positive and the bin one the camera has
NegativeExtent(p, req) ==
    /\ req.bin_x = req.bin_y
    /\ req.bin_x \in p.supported_bins
    /\ req.x_max > 0 /\ req.y_max > 0
    /\ \/ TruncDiv(req.x_max, req.bin_x) - TruncDiv(req.x_min, req.bin_x) < 0
       \/ TruncDiv(req.y_max, req.bin_x) - TruncDiv(req.y_min, req.bin_x) < 0

\* C29: set_roi refuses with an error every request whose binned extent in
\* x or in y is negative, however small: cutting the width to a multiple of
\* 8 and the height to a multiple of 2 never makes such a request accepted.
C29_NegativeExtentRefused ==
    (last.op = "set_roi" /\ NegativeExtent(props, last.arg))
    => /\ IsErr(last.result)
       /\ ~last.changed

\* the request passes the checks that come before the one on the area, and
\* its cut area is not a multiple of 1024
OddArea(p, req) ==
    /\ ~RefusedRequest(p, req)
    /\ CutWidth(p, req) >= 0 /\ CutHeight(p, req) >= 0
    /\ (CutWidth(p, req) * CutHeight(p, req)) % 1024 # 0

RefusedUntouched ==
    /\ IsErr(last.result)
    /\ last.cmds = {}
    /\ ~last.changed

\* C30: on every camera that is not on USB3, set_roi refuses a request whose
\* normalized width * height is not a multiple of 1024, before any write to
\* the camera and leaving the stored ROI as it was.
C30_LegacyAreaRefused ==
    (last.op = "set_roi" /\ ~props.is_usb3_camera
       /\ OddArea(props, last.arg))
    => RefusedUntouched

\* C30, amended: the same on every camera that is not on USB3 and whose
\* name contains "ASI120"; the refusal is InvalidValue.
C30_ASI120AreaRefused ==
    (last.op = "set_roi" /\ ~props.is_usb3_camera
       /\ props.name \in ASI120Names /\ OddArea(props, last.arg))
    => RefusedUntouched /\ last.result = "InvalidValue"

\* 496 x 450 has just been refused on an ASI120MM that holds another ROI
\* than the one it was opened with
C30_Witness ==
    /\ last.op = "set_roi" /\ ~props.is_usb3_camera
    /\ props.name \in ASI120Names /\ OddArea(props, last.arg)
    /\ last.result = "InvalidValue"
    /\ roi # InitialRoi(props)
    /\ hw_roi.width = roi.x_max - roi.x_min
(***************************************************************************)
(* Properties of the sampling and of the lowering of the bin               *)
(***************************************************************************)
\* floor(percentile * (n - 1) / 100), or n - 1 from 99.9 percent on
PercentileIndex(n, pct) ==
    IF pct >= 100 * PercentDen - 1 THEN n - 1
    ELSE (pct * (n - 1)) \div (100 * PercentDen)

\* that index, lowered by the margin when it is within the margin of the top
ExcludedIndex(n, pct, margin) ==
    IF PercentileIndex(n, pct) > n - 1 - margin
    THEN PercentileIndex(n, pct) - margin
    ELSE PercentileIndex(n, pct)

\* C31: the sorted pixels are sampled at floor(percentile * (n - 1) / 100),
\* or at n - 1 when percentile >= 99.9; an index within pixel_exclusion of
\* the top is lowered by pixel_exclusion, any other is left as it is; the
\* index used is within 0 .. n - 1.
C31_SampledIndex ==
    Optimized
    => /\ last.val.coord = ExcludedIndex(Len(last.arg.img),
                                         last.arg.percentile_pix,
                                         last.arg.pixel_exclusion)
       /\ 0 <= last.val.coord
       /\ last.val.coord <= Len(last.arg.img) - 1

\* the bin halved and the exposure multiplied by 4 for as long as the bin
\* is above 1 and the exposure stays under the cap
RECURSIVE HalvedUnderCap(_, _, _)
HalvedUnderCap(t, b, cap) ==
    IF b > 1 /\ 4 * t < cap THEN HalvedUnderCap(4 * t, b \div 2, cap)
    ELSE [exposure |-> t, bin |-> b]

\* C32: when the projected exposure is under max_allowed_exp and bin_x =
\* bin_y > 1, the bin is halved and the exposure multiplied by 4 for as
\* long as the exposure stays under the cap and the bin can be halved: a
\* frame at bin 2 with a short projection comes back at bin 1, and the bin
\* is not lowered when that would take the exposure over the cap.
C32_BinLowered ==
    (Optimized /\ ~last.val.converged
       /\ last.arg.bin_x = last.arg.bin_y /\ last.arg.bin_x > 1
       /\ last.arg.bin_x <= last.arg.max_allowed_bin
       /\ last.val.projected >= EpsilonMicros
       /\ last.val.projected < last.arg.max_allowed_exp)
    => LET e == HalvedUnderCap(last.val.projected, last.arg.bin_x,
                               last.arg.max_allowed_exp)
       IN  /\ last.val.bin = e.bin
           /\ last.val.exposure = e.exposure

\* the pc values at which capture_image is past its trigger block
AfterTrigger == {"poll", "ci_relock", "ci_finish"}

\* the commands issued before the start command of a capture
BeforeStart == {"GetExpStatus", "GetROIFormat"}

\* C33: the timestamp of an image returned by capture_image is read before
\* the start-exposure command is issued: while the capture polls and reads
\* out, and in the metadata of the image it returns, the timestamp is the
\* one taken when only the status and ROI reads of the trigger block had
\* been issued, so it precedes the start command, every poll and the
\* readout of that exposure.
C33_StampAtTrigger ==
    /\ \A t \in Threads :
         pc[t] \in AfterTrigger =>
           /\ call[t].stamp = BeforeStart
           /\ "StartExposure" \in call[t].cmds
    /\ (last.op = "capture_image" /\ last.result = "Ok") =>
           /\ last.meta.timestamp = BeforeStart
           /\ "StartExposure" \notin last.meta.timestamp
           /\ "GetDataAfterExp" \notin last.meta.timestamp
           /\ {"StartExposure", "GetDataAfterExp"} \subseteq last.cmds

\* an image is returned by a capture that polled and slept at least once
C33_Witness ==
    /\ last.op = "capture_image"
    /\ last.result = "Ok"
    /\ last.sleeps # {}
    /\ last.meta.timestamp = BeforeStart

\* the sleep the three tiers prescribe for an exposure, in microseconds
TierSleep(e) ==
    CASE e < 16000 -> 1000
      [] 16000 <= e /\ e < 1000000 -> 100000
      [] e >= 1000000 -> 1000000

\* C34: the poll interval of capture_image is the one of the tier of the
\* configured exposure (1 ms below 16 ms, 100 ms from 16 ms to below 1 s, 1 s
\* from 1 s on) and every sleep of the capture has that length; the caller
\* has slept only after a status check that read Working, and it is past
\* the loop exactly when the status it read last is not Working.
C34_PollInterval ==
    /\ \A t \in Threads :
         /\ pc[t] \in AfterTrigger =>
              /\ call[t].tick = TierSleep(exposure)
              /\ call[t].sleeps \subseteq {TierSleep(exposure)}
         /\ (pc[t] = "poll" /\ call[t].sleeps # {}) => stat[t] = "Working"
         /\ pc[t] \in {"ci_relock", "ci_finish"} => stat[t] # "Working"
    /\ (last.op = "capture_image" /\ last.sleeps # {}) =>
           last.sleeps = {TierSleep(exposure)}

\* a capture with an exposure of exactly 16 ms slept 100 ms, and left the
\* loop on the first status that was not Working
C34_Witness ==
    /\ exposure = 16000
    /\ \E t \in Threads :
         /\ pc[t] = "ci_relock"
         /\ call[t].sleeps = {100000}
         /\ stat[t] = "Success"

\* the bytes of one pixel of a hardware format
BytesPerPixel(fmt) ==
    CASE fmt = "RAW8" -> 1
      [] fmt = "RAW16" -> 2
      [] fmt = "RGB24" -> 3

\* the pixel type of the image built for a hardware format
PixelType(fmt) ==
    CASE fmt = "RAW8" -> "Luma8"
      [] fmt = "RAW16" -> "Luma16"
      [] fmt = "RGB24" -> "Rgb8"

\* C35: a capture that returns an image asked the camera for exactly
\* width * height * bytes_per_pixel bytes (1 for RAW8, 2 for RAW16, 3 for
\* RGB24) of the hardware ROI format read when it was triggered, which is
\* the camera's format still, and the image has that width, height and
\* pixel type.
C35_ReadoutSize ==
    (last.op = "capture_image" /\ last.result = "Ok") =>
        /\ last.arg.width = hw_roi.width
        /\ last.arg.height = hw_roi.height
        /\ last.arg.fmt = hw_roi.fmt
        /\ last.arg.fmt \in {"RAW8", "RAW16", "RGB24"}
        /\ last.bytes =
             last.arg.width * last.arg.height * BytesPerPixel(last.arg.fmt)
        /\ last.val = [width |-> last.arg.width, height |-> last.arg.height,
                       pixel |-> PixelType(last.arg.fmt)]

\* a RAW16 image of a region cut by set_roi is returned
C35_Witness ==
    /\ last.op = "capture_image"
    /\ last.result = "Ok"
    /\ last.arg.fmt = "RAW16"
    /\ last.arg.width < props.max_width
    /\ last.bytes = 2 * last.arg.width * last.arg.height

\* the pc values at which a thread holds the mutex: the trigger block and
\* the final block of capture_image, and the body of cancel_capture
HoldsLock == {"ci_trigger", "ci_finish", "cc_body"}

\* the pc values at which a thread waits for the mutex
WaitsForLock == {"ci_lock", "ci_relock", "cc_lock"}

\* the mutex is held in a block of hardware calls only, never by a caller
\* that polls or sleeps, and its holder can go on
HeldForCallsOnly ==
    /\ lock # 0 => (pc[lock] \in HoldsLock /\ ENABLED ThreadStep(lock))
    /\ \A t \in Threads :
         /\ pc[t] \in HoldsLock => lock = t
         /\ pc[t] = "poll" => (lock # t /\ ENABLED ThreadStep(t))
         /\ pc[t] \in WaitsForLock =>
              (ENABLED ThreadStep(t) \/ (lock # 0 /\ lock # t))

\* the step of the holder of the mutex releases it
HolderReleases == \A t \in Threads : (lock = t /\ pc'[t] # pc[t]) => lock' = 0

\* C36: capture_image does not hold the lock while it polls and sleeps: the
\* lock is held in the blocks of hardware calls only and each step of its
\* holder releases it, so a cancel_capture or second capture_image called
\* during an exposure waits for one such block and not for the exposure;
\* and no thread is ever unable to go on unless another holds the lock and
\* can go on.
C36_LockNotHeldWhilePolling ==
    /\ []HeldForCallsOnly
    /\ [][HolderReleases]_vars

\* one thread polls a running exposure while the other holds the lock in
\* cancel_capture
C36_Witness ==
    \E t \in Threads, u \in Threads :
        /\ pc[t] = "poll"
        /\ call[t].sleeps # {}
        /\ hw_status = "Working"
        /\ pc[u] = "cc_body"
        /\ lock = u

\* C37: every return of capture_image other than ExposureInProgress, an
\* image or an error, leaves the capturing flag false.
C37_ReturnLeavesFlagFalse ==
    (last.op = "capture_image" /\ last.result # "ExposureInProgress") =>
        ~capturing

\* C38: set_roi is idempotent on its own output: when the ROI returned by a
\* successful set_roi, of any supported bin, is passed back to set_roi and
\* the camera answers every command, the call succeeds and leaves the
\* stored ROI and the hardware geometry as they were.
C38_SetRoiIdempotent ==
    [][(/\ last.op = "set_roi"
        /\ last.result = "Ok"
        /\ last'.op = "set_roi"
        /\ last'.arg = last.val
        /\ last'.result \notin HardwareErrors)
       => (/\ last'.result = "Ok"
           /\ roi' = roi
           /\ hw_roi' = hw_roi
           /\ hw_start' = hw_start)]_vars

\* what "shutter closed" is, in the words of the metadata: closed exactly on
\* a camera with a mechanical shutter whose shutter set_shutter_open(false)
\* has closed
ShutterClosed == IF props.mechanical_shutter /\ is_dark_frame THEN "True"
                 ELSE "False"

\* C39: the dark-frame argument of the start-exposure command and the
\* DARK_FRAME entry of the metadata of the returned image both say whether
\* the shutter is closed: false with the shutter open or with no mechanical
\* shutter, true exactly after set_shutter_open(false).
C39_DarkFrameIsShutterClosed ==
    /\ (last.op = "capture_image" /\ "StartExposure" \in last.cmds) =>
           last.dark = ShutterClosed
    /\ (last.op = "capture_image" /\ last.result = "Ok") =>
           last.meta.dark_frame = ShutterClosed

\* C40: whenever save_fits returns an error, a file that was at the
\* destination before the call is still there.
C40_ErrorKeepsFile ==
    (last.op = "save_fits" /\ last.result # "Ok" /\ last.arg.file = "old")
        => last.val = "old"
====
